---------------------------- MODULE Spec2Model ----------------------------
(***************************************************************************)
(* Model of the Aktien-tool2 image renderers.                              *)
(*                                                                         *)
(*   src/app.py          single-stock card: generate_image and its font    *)
(*                       fit loop                                          *)
(*   src/compare_app.py  two-stock comparison: select_metrics,             *)
(*                       compare_metrics, render_compare,                  *)
(*                       draw_company_card and the text fitters            *)
(*                                                                         *)
(* Conventions.                                                            *)
(*  - A text is a sequence of one-character strings; the ellipsis and the  *)
(*    en dash, which are single glyphs, are the tokens ELLIPSIS and        *)
(*    EN_DASH.                                                             *)
(*  - Pixel widths returned by draw.textlength are floats in the program.  *)
(*    They are kept here as integers in hundredths of a pixel, so that     *)
(*    "textlength(t) <= max_w" and "int(textlength(t))" are both exact.    *)
(*  - A font is a record [size, kind]; kind "ttf" is a loaded TrueType     *)
(*    file whose glyphs scale with size, kind "builtin" is PIL's           *)
(*    load_default() font whose glyphs keep their built-in size.           *)
(*  - Points of the scorer are multiples of 0.5; left_pts and right_pts    *)
(*    hold twice the program's value.                                      *)
(***************************************************************************)
EXTENDS Integers, Sequences, FiniteSets, TLC

VARIABLES
    \* ---- font fit loops (app.py generate_image, compare_app.py shrink_*)
    fpc,          \* position: which loop runs and where it is
    fontOk,       \* do the Montserrat font files load?
    fitIn,        \* inputs of the generate_image fit loop
    f_lbl_cur,    \* app.py:533
    f_val_cur,    \* app.py:534
    passes,       \* completed iterations of the fit loop that did not exit
    shIn,         \* inputs of shrink_to_fit / shrink_label_to_fit_for_key
    size,         \* local "size" of the running shrink function
    min_px,       \* its floor
    f,            \* its current font
    shOut,        \* its return value
    \* ---- one metric row through render_compare and draw_company_card
    cpc,          \* position in render_compare
    cardIn,       \* the metric key, the two display texts, the fonts
    chip_widths,  \* compare_app.py:724, restricted to the key followed
    rows,         \* what draw_company_card drew for the key on each card
    \* ---- the scorer of render_compare
    spc,          \* position in the scoring code
    scIn,         \* the selected metrics and the cells of the two rows
    _cmp,         \* what compare_metrics returned, in insertion order
    left_pts,     \* points of entity A, counted in half points
    right_pts,    \* points of entity B, counted in half points
    ti,           \* index of the next item of _cmp.items()
    badge,        \* the winner badge
    \* ---- select_metrics
    selpc,        \* position in select_metrics
    selIn,        \* requested list, sector key, columns and cells of the rows
    order,        \* compare_app.py:632
    both,         \* compare_app.py:637
    either,       \* compare_app.py:637
    sel,          \* the list select_metrics returns
    \* ---- the parts below keep their state in one record each
    pureCall,     \* one call of a formatter or resolver: arguments, result
    render,       \* render_compare as a whole: the fonts and how far it got
    request,      \* one /generate request of compare_app.py
    dfCache,      \* load_df: the CSV file, the cache, the calls in flight
    retry,        \* one call of get_info_with_retry
    update,       \* one run of main() of update_csv.py
    adapt,        \* the pool and cooldown settings main() adapts per batch
    cleanup,      \* the output directory, cleanup_generated, the requests
    save          \* the end of main(): partial saves and the final CSV

fitVars  == <<fpc, fontOk, fitIn, f_lbl_cur, f_val_cur, passes, shIn, size, min_px, f, shOut>>
cardVars == <<cpc, cardIn, chip_widths, rows>>

scoreVars == <<spc, scIn, _cmp, left_pts, right_pts, ti, badge>>

selVars   == <<selpc, selIn, order, both, either, sel>>

recVars   == <<pureCall, render, request, dfCache, retry, update, adapt,
               cleanup, save>>

vars == <<fitVars, cardVars, scoreVars, selVars, recVars>>

exceptFit   == <<cardVars, scoreVars, selVars, recVars>>
exceptCard  == <<fitVars, scoreVars, selVars, recVars>>
exceptScore == <<fitVars, cardVars, selVars, recVars>>
exceptSel   == <<fitVars, cardVars, scoreVars, recVars>>
exceptRec   == <<fitVars, cardVars, scoreVars, selVars>>

-----------------------------------------------------------------------------
(* Generic helpers *)

Max(a, b) == IF a >= b THEN a ELSE b
Min(a, b) == IF a <= b THEN a ELSE b

Rep(c, n) == [i \in 1..n |-> c]

NoFont == [size |-> 0, kind |-> "none"]
NoText == << >>
NoIn   == [key |-> "", text |-> << >>, max_w |-> 0]
NoFit  == [lab |-> << >>, val |-> << >>, n |-> 0, lines |-> 0]
NoOut  == [font |-> NoFont, text |-> << >>]

-----------------------------------------------------------------------------
(* Text measurement: PIL's draw.textlength *)

ELLIPSIS == "..."
EN_DASH  == "--"
Digits   == {"0", "1", "2", "3", "4", "5", "6", "7", "8", "9"}

\* Size of the font PIL's load_default() returns (FreeType builds).
DEFAULT_FONT_PX == 10

\* Advance of a glyph in hundredths of the font size.
Adv(c) ==
    CASE c \in Digits                  -> 62
      [] c \in {",", ".", ":", " "}    -> 28
      [] c = "-"                       -> 40
      [] c \in {"%", ELLIPSIS}         -> 85
      [] c = EN_DASH                   -> 60
      [] OTHER                         -> 65

RECURSIVE SumAdvUpTo(_, _)
SumAdvUpTo(text, n) == IF n = 0 THEN 0 ELSE Adv(text[n]) + SumAdvUpTo(text, n - 1)

SumAdv(text) == SumAdvUpTo(text, Len(text))

\* draw.textlength(text, font=font), in hundredths of a pixel.
textlength(text, font) ==
    SumAdv(text) * (IF font.kind = "ttf" THEN font.size ELSE DEFAULT_FONT_PX)

\* "draw.textlength(text, font=font) <= max_width"
FitsWidth(text, font, max_width) == textlength(text, font) <= max_width * 100

\* "int(draw.textlength(text, font=font))"
IntLen(text, font) == textlength(text, font) \div 100

-----------------------------------------------------------------------------
(* app.py: fonts and geometry of generate_image *)

OUTPUT_WIDTH  == 1080
OUTPUT_HEIGHT == 1350
MAX_METRICS   == 8
MIN_FONT      == 22

\* app.py _font: the backup font is returned as it is, its size untouched.
app_font(sz, ok) ==
    IF ok THEN [size |-> sz, kind |-> "ttf"]
          ELSE [size |-> DEFAULT_FONT_PX, kind |-> "builtin"]

TITLE_SZ == Max(42, (OUTPUT_WIDTH * 60) \div 1000)
LABEL_SZ == Max(28, (OUTPUT_WIDTH * 37) \div 1000)
FOOT_SZ  == Max(20, (OUTPUT_WIDTH * 26) \div 1000)

\* col_w of generate_image (app.py:492-494)
col_w ==
    LET x       == (OUTPUT_WIDTH * 6) \div 100
        avail_w == OUTPUT_WIDTH - 2 * x
        col_gap == (OUTPUT_WIDTH * 5) \div 100
    IN  (avail_w - col_gap) \div 2

\* available_vertical of generate_image (app.py:440-447, 506-511) for a title
\* wrapped into `lines` lines.
available_vertical(lines, ok) ==
    LET f_bld   == app_font(TITLE_SZ, ok)
        f_foot  == app_font(FOOT_SZ, ok)
        y       == (OUTPUT_HEIGHT * 9) \div 100
                   + lines * ((f_bld.size * 118) \div 100 + 8)
        safe_top      == y + (OUTPUT_HEIGHT * 3) \div 100 + 16
        bottom_margin == (OUTPUT_HEIGHT * 22) \div 100
        footer_room   == f_foot.size + (f_foot.size * 6) \div 10
    IN  OUTPUT_HEIGHT - bottom_margin - footer_room - safe_top

\* compute_label_value_widths (app.py:518-531); lab and val are the widest
\* label and the widest value text of the selected metrics.
compute_label_value_widths(font_lbl, font_val, lab, val) ==
    LET max_label_px_local == IntLen(lab, font_lbl)
        label_w == Min((col_w * 72) \div 100, max_label_px_local + 18)
    IN  [label_w    |-> label_w,
         value_w    |-> col_w - label_w,
         max_val_px |-> IntLen(val, font_val)]

max_rows(n) == (n + 1) \div 2

\* fits_height (app.py:538-540)
fits_height(font_lbl, in, ok) ==
    LET line_h == (font_lbl.size * 210) \div 100
    IN  max_rows(in.n) * line_h <= available_vertical(in.lines, ok)

\* fits_width (app.py:537, 541)
fits_width(font_lbl, font_val, in) ==
    LET w == compute_label_value_widths(font_lbl, font_val, in.lab, in.val)
    IN  w.max_val_px <= w.value_w


\* fit_iteration without its second branch: a width failure with the value
\* font at the floor no longer shrinks the label font.
fit_iteration_without_label_branch(lbl, val, in, ok) ==
    LET fh == fits_height(lbl, in, ok)
        fw == fits_width(lbl, val, in)
        l2 == IF lbl.size > MIN_FONT THEN app_font(lbl.size - 1, ok) ELSE lbl
        v2 == IF val.size > MIN_FONT THEN app_font(val.size - 1, ok) ELSE val
    IN  IF fh /\ fw
          THEN [lbl |-> lbl, val |-> val, branch |-> "fits", exit |-> TRUE]
        ELSE IF ~fw /\ val.size > MIN_FONT
          THEN [lbl |-> lbl, val |-> v2, branch |-> "value", exit |-> FALSE]
        ELSE IF ~fh
          THEN [lbl |-> l2, val |-> v2, branch |-> "height",
                exit |-> (l2 = lbl /\ v2 = val)]
        ELSE [lbl |-> lbl, val |-> val, branch |-> "none", exit |-> TRUE]

\* fit_iteration whose second branch shrinks the label font without looking
\* at the floor.
fit_iteration_label_without_floor(lbl, val, in, ok) ==
    LET fh == fits_height(lbl, in, ok)
        fw == fits_width(lbl, val, in)
        l2 == IF lbl.size > MIN_FONT THEN app_font(lbl.size - 1, ok) ELSE lbl
        v2 == IF val.size > MIN_FONT THEN app_font(val.size - 1, ok) ELSE val
    IN  IF fh /\ fw
          THEN [lbl |-> lbl, val |-> val, branch |-> "fits", exit |-> TRUE]
        ELSE IF ~fw /\ val.size > MIN_FONT
          THEN [lbl |-> lbl, val |-> v2, branch |-> "value", exit |-> FALSE]
        ELSE IF ~fw /\ lbl.size > 1
          THEN [lbl |-> app_font(lbl.size - 1, ok), val |-> val,
                branch |-> "label", exit |-> FALSE]
        ELSE IF ~fh
          THEN [lbl |-> l2, val |-> v2, branch |-> "height",
                exit |-> (l2 = lbl /\ v2 = val)]
        ELSE [lbl |-> lbl, val |-> val, branch |-> "none", exit |-> TRUE]

\* fit_iteration that looks at the height first: a pass in which the rows
\* are too high shrinks both fonts, whatever the width.
fit_iteration_height_first(lbl, val, in, ok) ==
    LET fh == fits_height(lbl, in, ok)
        fw == fits_width(lbl, val, in)
        l2 == IF lbl.size > MIN_FONT THEN app_font(lbl.size - 1, ok) ELSE lbl
        v2 == IF val.size > MIN_FONT THEN app_font(val.size - 1, ok) ELSE val
    IN  IF fh /\ fw
          THEN [lbl |-> lbl, val |-> val, branch |-> "fits", exit |-> TRUE]
        ELSE IF ~fh
          THEN [lbl |-> l2, val |-> v2, branch |-> "height",
                exit |-> (l2 = lbl /\ v2 = val)]
        ELSE IF val.size > MIN_FONT
          THEN [lbl |-> lbl, val |-> v2, branch |-> "value", exit |-> FALSE]
        ELSE IF lbl.size > MIN_FONT
          THEN [lbl |-> l2, val |-> val, branch |-> "label", exit |-> FALSE]
        ELSE [lbl |-> lbl, val |-> val, branch |-> "none", exit |-> TRUE]

\* One pass through the body of the "while True" loop (app.py:536-560):
\* the fonts after the pass, the branch taken and whether the loop exits.
fit_iteration(lbl, val, in, ok) ==
    LET fh == fits_height(lbl, in, ok)
        fw == fits_width(lbl, val, in)
        l2 == IF lbl.size > MIN_FONT THEN app_font(lbl.size - 1, ok) ELSE lbl
        v2 == IF val.size > MIN_FONT THEN app_font(val.size - 1, ok) ELSE val
    IN  IF fh /\ fw
          THEN [lbl |-> lbl, val |-> val, branch |-> "fits", exit |-> TRUE]
        ELSE IF ~fw /\ val.size > MIN_FONT
          THEN [lbl |-> lbl, val |-> v2, branch |-> "value", exit |-> FALSE]
        ELSE IF ~fw /\ lbl.size > MIN_FONT
          THEN [lbl |-> l2, val |-> val, branch |-> "label", exit |-> FALSE]
        ELSE IF ~fh
          THEN [lbl |-> l2, val |-> v2, branch |-> "height",
                exit |-> (l2 = lbl /\ v2 = val)]
        ELSE [lbl |-> lbl, val |-> val, branch |-> "none", exit |-> TRUE]

-----------------------------------------------------------------------------
(* compare_app.py: fonts, labels and the two shrink loops *)

\* compare_app.py _font: Montserrat, else DejaVuSans, else the backup font
\* tagged with the requested size.
cmp_font(sz, ok) == [size |-> sz, kind |-> IF ok THEN "ttf" ELSE "builtin"]

CMP_TITLE_SZ == Max(42, (OUTPUT_WIDTH * 58) \div 1000)
CMP_LABEL_SZ == Max(26, (OUTPUT_WIDTH * 34) \div 1000)
CMP_VAL_SZ   == Max(28, (OUTPUT_WIDTH * 36) \div 1000)

\* Loop condition of shrink_to_fit (compare_app.py:339)
shrink_to_fit_cond(sz, floor, text, font, max_width) ==
    sz > floor /\ ~FitsWidth(text, font, max_width)

\* LABELS.get(key, key) + ":" (compare_app.py:125-133, 477-478)
LabelOf(key) ==
    CASE key = "KGV" -> <<"K", "G", "V", ":">>
      [] key = "Nettomarge" ->
           <<"N", "e", "t", "t", "o", "m", "a", "r", "g", "e", ":">>
      [] key = "Eigenkapitalrendite" ->
           <<"E", "i", "g", "e", "n", "k", "a", "p", "i", "t", "a", "l",
             "r", "e", "n", "d", "i", "t", "e", ":">>
      [] key = "Free Cashflow Yield" ->
           <<"F", "r", "e", "e", " ", "C", "a", "s", "h", "f", "l", "o", "w",
             " ", "Y", "i", "e", "l", "d", ":">>
      [] key = "Umsatzwachstum 3J (erwartet)" ->
           <<"U", "m", "s", "a", "t", "z", "w", ".", " ", "3", "J", ":">>
      [] key = "Institutioneller_Anteil" ->
           <<"I", "n", "s", "t", "i", "t", "u", "t", "i", "o", "n", "e", "l",
             "l", "e", "r", "_", "A", "n", "t", "e", "i", "l", ":">>
      [] OTHER -> <<"K", "e", "y", ":">>

\* ALT_LABELS2.get(key, []) (compare_app.py:393-401)
ALT_LABELS2(key) ==
    CASE key = "Eigenkapitalrendite" ->
           << <<"E", "K", "-", "R", "e", "n", "d", "i", "t", "e">>,
              <<"R", "O", "E">> >>
      [] key = "Free Cashflow Yield" ->
           << <<"F", "C", "F", "-", "Y", "i", "e", "l", "d">>,
              <<"F", "C", "F", "%">> >>
      [] key = "Nettomarge" ->
           << <<"N", "e", "t", "t", "o", "m", "a", "r", "g", "e">>,
              <<"N", "e", "t", "-", "M", "a", "r", "g", "e">> >>
      [] key = "Umsatzwachstum 3J (erwartet)" ->
           << <<"U", "m", "s", "a", "t", "z", "w", ".", " ", "3", "J">>,
              <<"R", "e", "v", ".", " ", "3", "J">> >>
      [] OTHER -> << >>

\* ellipsize_to_fit (compare_app.py:344-350)
RECURSIVE ellipsize_loop(_, _, _)
ellipsize_loop(s, font, max_width) ==
    IF s # << >> /\ ~FitsWidth(s \o <<ELLIPSIS>>, font, max_width)
      THEN ellipsize_loop(SubSeq(s, 1, Len(s) - 1), font, max_width)
      ELSE s \o <<ELLIPSIS>>

ellipsize_to_fit(text, font, max_width) ==
    IF FitsWidth(text, font, max_width) THEN text
    ELSE ellipsize_loop(text, font, max_width)

\* Floor of shrink_label_to_fit_for_key (compare_app.py:407)
label_min_px(start) == Max(14, (start * 82) \div 100)

\* The loop condition with ">=" for ">": one step too many.
shrink_label_cond_off_by_one(sz, floor, text, font, max_w) ==
    sz >= floor /\ ~FitsWidth(text, font, max_w)

\* Loop condition of shrink_label_to_fit_for_key (compare_app.py:410)
shrink_label_cond(sz, floor, text, font, max_w) ==
    sz > floor /\ ~FitsWidth(text, font, max_w)

\* The first alternative label that fits, or << >> (compare_app.py:415-418)
RECURSIVE first_alt_that_fits(_, _, _, _)
first_alt_that_fits(alts, colon, font, max_w) ==
    IF alts = << >> THEN << >>
    ELSE LET cand == Head(alts) \o colon
         IN  IF FitsWidth(cand, font, max_w) THEN cand
             ELSE first_alt_that_fits(Tail(alts), colon, font, max_w)

\* What shrink_label_to_fit_for_key returns once its loop has ended
\* (compare_app.py:413-419).
label_after_loop(key, base, font, max_w) ==
    LET colon == IF base # << >> /\ base[Len(base)] = ":" THEN <<":">> ELSE << >>
        alt   == first_alt_that_fits(ALT_LABELS2(key), colon, font, max_w)
    IN  IF FitsWidth(base, font, max_w) THEN base
        ELSE IF alt # << >> THEN alt
        ELSE ellipsize_to_fit(base, font, max_w)


-----------------------------------------------------------------------------
(* compare_app.py: geometry of render_compare and draw_company_card *)

CHIP_MAX_FRAC  == 40    \* percent of the content width (compare_app.py:390)
LABEL_MIN_FRAC == 50    \* percent of the content width (compare_app.py:391)

\* card_w of render_compare (compare_app.py:709-711)
card_w ==
    LET margin_x == (OUTPUT_WIDTH * 6) \div 100
        gap      == (OUTPUT_WIDTH * 4) \div 100
    IN  (OUTPUT_WIDTH - margin_x * 2 - gap) \div 2

\* content_w, max_chip_w, min_label_w of draw_company_card
\* (compare_app.py:431, 454-456)
content_w   == card_w - 2 * ((OUTPUT_WIDTH * 35) \div 1000)
max_chip_w  == (content_w * CHIP_MAX_FRAC) \div 100
min_label_w == (content_w * LABEL_MIN_FRAC) \div 100

\* Width of the title box given to shrink_to_fit (compare_app.py:698)
title_max_w  == (OUTPUT_WIDTH * 92) \div 100
title_min_px == (CMP_TITLE_SZ * 60) \div 100

-----------------------------------------------------------------------------
(* compare_app.py: trim_numeric_text_to_fit *)

IsDigit(c) == c \in Digits

\* Last index of the run of digits that starts at index i
RECURSIVE RunEnd(_, _)
RunEnd(s, i) ==
    IF i < Len(s) /\ IsDigit(s[i + 1]) THEN RunEnd(s, i + 1) ELSE i

\* The pattern (\d+),(\d+)(?=[^0-9%]|$|%) matches at index i: both groups
\* are greedy, and the lookahead accepts everything but a digit, which a
\* greedy second group never leaves behind (compare_app.py:376).
MatchAt(s, i) ==
    /\ IsDigit(s[i])
    /\ LET j == RunEnd(s, i)
       IN  j + 2 <= Len(s) /\ s[j + 1] = "," /\ IsDigit(s[j + 2])

NoMatch == [found |-> FALSE, g1e |-> 0, g2s |-> 0, g2e |-> 0]

\* m[-1] of list(re.finditer(...)): the matches are taken left to right
\* and do not overlap; from is where the scan stands.
RECURSIVE LastMatch(_, _, _)
LastMatch(s, from, last) ==
    IF from > Len(s) THEN last
    ELSE IF MatchAt(s, from)
         THEN LET j == RunEnd(s, from)
                  k == RunEnd(s, j + 2)
              IN  LastMatch(s, k + 1,
                            [found |-> TRUE, g1e |-> j, g2s |-> j + 2, g2e |-> k])
         ELSE LastMatch(s, from + 1, last)

\* A shortening that takes the last digit before the comma
trim_once_integer_digit(s, m) ==
    SubSeq(s, 1, m.g1e - 1) \o SubSeq(s, m.g1e + 1, Len(s))

\* One shortening: drop the last decimal; drop comma and decimal when it
\* is the only one (compare_app.py:379-384).
trim_once(s, m) ==
    IF m.g2e > m.g2s
    THEN SubSeq(s, 1, m.g2e - 1) \o SubSeq(s, m.g2e + 1, Len(s))
    ELSE SubSeq(s, 1, m.g1e) \o SubSeq(s, m.g2e + 1, Len(s))

\* The while loop (compare_app.py:375-384)
RECURSIVE trim_loop(_, _, _)
trim_loop(s, font, max_width) ==
    IF FitsWidth(s, font, max_width) THEN s
    ELSE LET m == LastMatch(s, 1, NoMatch)
         IN  IF ~m.found THEN s
             ELSE trim_loop(trim_once(s, m), font, max_width)

\* The same without the ellipsis of the last line
trim_numeric_without_ellipsis(text, font, max_width) ==
    trim_loop(text, font, max_width)

\* compare_app.py:367-387
trim_numeric_text_to_fit(text, font, max_width) ==
    IF FitsWidth(text, font, max_width) THEN text
    ELSE LET s == trim_loop(text, font, max_width)
         IN  IF FitsWidth(s, font, max_width) THEN s
             ELSE ellipsize_to_fit(s, font, max_width)

-----------------------------------------------------------------------------
(* compare_app.py: one row of draw_company_card *)

\* The while loop of shrink_label_to_fit_for_key run to its end; the
\* body reopens the font file, which raises for the built-in font
\* (compare_app.py:410-412).
RECURSIVE shrink_label_loop(_, _, _, _, _)
shrink_label_loop(sz, floor, text, font, max_w) ==
    IF shrink_label_cond(sz, floor, text, font, max_w)
    THEN IF font.kind # "ttf" THEN [raised |-> TRUE, font |-> font]
         ELSE shrink_label_loop(sz - 1, floor, text,
                                [size |-> sz - 1, kind |-> "ttf"], max_w)
    ELSE [raised |-> FALSE, font |-> font]

\* compare_app.py:403-419
shrink_label_to_fit_for_key(key, base, font, max_w) ==
    IF FitsWidth(base, font, max_w)
    THEN [raised |-> FALSE, font |-> font, text |-> base]
    ELSE LET r == shrink_label_loop(font.size, label_min_px(font.size),
                                    base, font, max_w)
         IN  IF r.raised THEN [raised |-> TRUE, font |-> r.font, text |-> << >>]
             ELSE [raised |-> FALSE, font |-> r.font,
                   text |-> label_after_loop(key, base, r.font, max_w)]

\* val_txt.strip() != "-" for the texts display_value returns
\* (compare_app.py:465)
HasVal(val_txt) == val_txt # <<EN_DASH>>

\* chip_widths.get(key, dflt) (compare_app.py:470)
ChipGet(cw, key, dflt) ==
    IF \E e \in cw : e[1] = key
    THEN (CHOOSE e \in cw : e[1] = key)[2]
    ELSE dflt

\* The clamp of the chip without the maximum share
chip_clamp_without_max(cw_px, suggested) ==
    IF cw_px - suggested - 16 < (cw_px * LABEL_MIN_FRAC) \div 100
    THEN Max((cw_px * 30) \div 100,
             cw_px - 16 - (cw_px * LABEL_MIN_FRAC) \div 100)
    ELSE suggested

\* chip_w from the suggested width in a card whose content is cw_px wide
\* (compare_app.py:454-456, 471-473)
chip_clamp(cw_px, suggested) ==
    LET chip_w == Min(suggested, (cw_px * CHIP_MAX_FRAC) \div 100)
    IN  IF cw_px - chip_w - 16 < (cw_px * LABEL_MIN_FRAC) \div 100
        THEN Max((cw_px * 30) \div 100,
                 cw_px - 16 - (cw_px * LABEL_MIN_FRAC) \div 100)
        ELSE chip_w

\* The chip as wide as the card's own value only
chip_width_own_value_only(val_txt, key, cw, f_val) ==
    LET base_w == IntLen(val_txt, f_val) + 24
        chip_w == Min(base_w, max_chip_w)
    IN  IF content_w - chip_w - 16 < min_label_w
        THEN Max((content_w * 30) \div 100, content_w - 16 - min_label_w)
        ELSE chip_w

\* chip_w of a row that has a value (compare_app.py:469-473)
chip_width(val_txt, key, cw, f_val) ==
    LET base_w    == IntLen(val_txt, f_val) + 24
        suggested == Max(base_w, ChipGet(cw, key, base_w))
    IN  chip_clamp(content_w, suggested)

\* One pass of the loop over metrics (compare_app.py:458-497): what is
\* drawn for key, given the text display_value returned.
draw_row(key, val_txt, cw, f_lbl, f_val) ==
    LET has_val     == HasVal(val_txt)
        chip_w      == IF has_val THEN chip_width(val_txt, key, cw, f_val) ELSE 0
        shown       == IF has_val
                       THEN trim_numeric_text_to_fit(val_txt, f_val, chip_w - 20)
                       ELSE <<EN_DASH>>
        max_label_w == content_w
                       - (IF has_val THEN chip_w ELSE (f_val.size * 25) \div 10)
                       - 16
        lab         == shrink_label_to_fit_for_key(key, LabelOf(key), f_lbl,
                                                   max_label_w)
    IN  [drawn |-> ~lab.raised, has_val |-> has_val, chip_w |-> chip_w,
         val_txt |-> shown, f_val |-> f_val,
         max_label_w |-> max_label_w,
         label_fit |-> lab.text, f_lbl_fit |-> lab.font]

\* The entry render_compare puts into chip_widths for key
\* (compare_app.py:723-731); t1 and t2 are the two display texts.
chip_widths_for(key, t1, t2, f_val) ==
    LET tw1 == IF t1 # << >> /\ HasVal(t1) THEN IntLen(t1, f_val) ELSE 0
        tw2 == IF t2 # << >> /\ HasVal(t2) THEN IntLen(t2, f_val) ELSE 0
        mx  == Max(tw1, tw2)
    IN  IF mx > 0 THEN {<<key, mx + 24>>} ELSE {}

-----------------------------------------------------------------------------
(* Bounds of the font-loop inputs *)

MaxLabelLen   == 20   \* characters of the widest label of generate_image
MaxValLen     == 12   \* characters of its widest value text
MaxTitleLines == 8    \* lines the title of generate_image wraps into
MaxTitleLen   == 44   \* characters of the title of render_compare

MaxIntDigits  == 4    \* digits before the comma of a displayed number
MaxDecimals   == 2    \* digits after it (fmt_number, fmt_percent)
MaxRawLen     == 12   \* characters of a cell shown as it is

\* Integer part with the thousands separator of _fmt_locale
\* (compare_app.py:175-181)
IntPart(n) ==
    LET len == n + (n - 1) \div 3
    IN  [i \in 1..len |-> IF (len - i + 1) % 4 = 0 THEN "." ELSE "8"]

\* The texts display_value can return (compare_app.py:253-275): the dash
\* of an absent value, a number with or without unit, a cell that is not
\* a number.
ValueTexts ==
    {<<EN_DASH>>}
    \cup {IntPart(n) \o (IF d > 0 THEN <<",">> \o Rep("8", d) ELSE << >>) \o u :
            n \in 1..MaxIntDigits, d \in 0..MaxDecimals,
            u \in {<< >>, <<"%">>, <<" ", "M", "r", "d", " ", "$">>}}
    \cup {Rep("a", 3), Rep("a", MaxRawLen)}

FitInputs ==
    [lab   : {Rep("a", n) \o <<":">> : n \in 1..MaxLabelLen},
     val   : {Rep("8", n) : n \in 1..MaxValLen},
     n     : 1..MAX_METRICS,
     lines : 1..MaxTitleLines]

LabelKeys ==
    {"KGV", "Nettomarge", "Eigenkapitalrendite", "Free Cashflow Yield",
     "Umsatzwachstum 3J (erwartet)", "Institutioneller_Anteil"}

\* Widths of the label box draw_company_card can ask for
\* (compare_app.py:479): beside the widest chip, beside the narrowest
\* chip, and beside a missing value.
LabelBoxes ==
    {content_w - max_chip_w - 16,
     content_w - 24 - 16,
     content_w - (CMP_VAL_SZ * 25) \div 10 - 16}

-----------------------------------------------------------------------------
(* The parts of the program a specification leaves at rest *)

NoRow == [drawn |-> FALSE]

FitIdle ==
    /\ fpc = "idle" /\ fontOk = TRUE /\ fitIn = NoFit
    /\ f_lbl_cur = NoFont /\ f_val_cur = NoFont /\ passes = 0
    /\ shIn = NoIn /\ size = 0 /\ min_px = 0 /\ f = NoFont /\ shOut = NoOut

CardIdle ==
    /\ cpc = "idle"
    /\ cardIn = [ok |-> TRUE, key |-> "", A |-> << >>, B |-> << >>]
    /\ chip_widths = {}
    /\ rows = [e \in {"A", "B"} |-> NoRow]

NoBadge == [kind |-> "none", first |-> 0, second |-> 0]

ScoreIdle ==
    /\ spc = "idle"
    /\ scIn = [metrics |-> << >>, A |-> << >>, B |-> << >>]
    /\ _cmp = << >>
    /\ left_pts = 0 /\ right_pts = 0 /\ ti = 0
    /\ badge = NoBadge

SelIdle ==
    /\ selpc = "idle"
    /\ selIn = [req |-> << >>, sec |-> "", cols |-> {}, A |-> << >>, B |-> << >>]
    /\ order = << >> /\ both = << >> /\ either = << >> /\ sel = << >>

Idle == [pc |-> "idle"]

\* Every record part but the named one is at rest
RecIdleExcept(part) ==
    /\ part = "pureCall" \/ pureCall = Idle
    /\ part = "render"   \/ render = Idle
    /\ part = "request"  \/ request = Idle
    /\ part = "dfCache"  \/ dfCache = Idle
    /\ part = "retry"    \/ retry = Idle
    /\ part = "update"   \/ update = Idle
    /\ part = "adapt"    \/ adapt = Idle
    /\ part = "cleanup"  \/ cleanup = Idle
    /\ part = "save"     \/ save = Idle

RecIdle == RecIdleExcept("")

\* Everything but the named record part is at rest
IdleExcept(part) ==
    FitIdle /\ CardIdle /\ ScoreIdle /\ SelIdle /\ RecIdleExcept(part)

\* Everything but the named record part stays as it is
KeepExcept(part) ==
    /\ UNCHANGED exceptRec
    /\ IF part = "pureCall" THEN TRUE ELSE UNCHANGED pureCall
    /\ IF part = "render"   THEN TRUE ELSE UNCHANGED render
    /\ IF part = "request"  THEN TRUE ELSE UNCHANGED request
    /\ IF part = "dfCache"  THEN TRUE ELSE UNCHANGED dfCache
    /\ IF part = "retry"    THEN TRUE ELSE UNCHANGED retry
    /\ IF part = "update"   THEN TRUE ELSE UNCHANGED update
    /\ IF part = "adapt"    THEN TRUE ELSE UNCHANGED adapt
    /\ IF part = "cleanup"  THEN TRUE ELSE UNCHANGED cleanup
    /\ IF part = "save"     THEN TRUE ELSE UNCHANGED save

-----------------------------------------------------------------------------
(* The font loops as state machines *)

\* generate_image reaches its fit loop (app.py:533-536).
InitFitLoop ==
    /\ fpc = "fit_loop"
    /\ fontOk \in BOOLEAN
    /\ fitIn \in FitInputs
    /\ f_lbl_cur = app_font(LABEL_SZ, fontOk)
    /\ f_val_cur = app_font(LABEL_SZ, fontOk)
    /\ passes = 0
    /\ shIn = NoIn /\ size = 0 /\ min_px = 0 /\ f = NoFont /\ shOut = NoOut

\* render_compare calls shrink_to_fit for the title
\* (compare_app.py:698, 337-338).
InitShrinkToFit ==
    /\ fpc = "stf_loop"
    /\ fontOk \in BOOLEAN
    /\ \E n \in 1..MaxTitleLen :
         shIn = [key |-> "title", text |-> Rep("a", n), max_w |-> title_max_w]
    /\ f = cmp_font(CMP_TITLE_SZ, fontOk)
    /\ size = CMP_TITLE_SZ
    /\ min_px = title_min_px
    /\ shOut = NoOut
    /\ fitIn = NoFit /\ f_lbl_cur = NoFont /\ f_val_cur = NoFont /\ passes = 0

\* draw_company_card calls shrink_label_to_fit_for_key
\* (compare_app.py:480).
InitShrinkLabel ==
    /\ fpc = "lbl_enter"
    /\ fontOk \in BOOLEAN
    /\ \E key \in LabelKeys, w \in LabelBoxes :
         shIn = [key |-> key, text |-> LabelOf(key), max_w |-> w]
    /\ f = cmp_font(CMP_LABEL_SZ, fontOk)
    /\ size = 0 /\ min_px = 0
    /\ shOut = NoOut
    /\ fitIn = NoFit /\ f_lbl_cur = NoFont /\ f_val_cur = NoFont /\ passes = 0

InitFit ==
    /\ InitFitLoop \/ InitShrinkToFit \/ InitShrinkLabel
    /\ CardIdle /\ ScoreIdle /\ SelIdle /\ RecIdle

FitResult == fit_iteration(f_lbl_cur, f_val_cur, fitIn, fontOk)

FitKeep == UNCHANGED <<fontOk, fitIn, shIn, size, min_px, f, shOut, exceptFit>>

\* One pass through the loop body (app.py:536-560): break when both
\* constraints hold, else shrink by the branch that applies, and break when
\* nothing changed.
FitIteration ==
    /\ fpc = "fit_loop"
    /\ LET r == FitResult
       IN  /\ f_val_cur' = r.val
           /\ f_lbl_cur' = r.lbl
           /\ fpc' = IF r.exit THEN "fit_done" ELSE "fit_loop"
           /\ passes' = IF r.exit THEN passes ELSE passes + 1
    /\ FitKeep

ShKeep == UNCHANGED <<fontOk, fitIn, f_lbl_cur, f_val_cur, passes, shIn, min_px, exceptFit>>

\* compare_app.py:339-341
StfShrink ==
    /\ fpc = "stf_loop"
    /\ shrink_to_fit_cond(size, min_px, shIn.text, f, shIn.max_w)
    /\ size' = size - 1
    /\ f' = cmp_font(size - 1, fontOk)
    /\ UNCHANGED <<fpc, shOut>> /\ ShKeep

\* compare_app.py:342
StfReturn ==
    /\ fpc = "stf_loop"
    /\ ~shrink_to_fit_cond(size, min_px, shIn.text, f, shIn.max_w)
    /\ fpc' = "stf_done"
    /\ shOut' = [font |-> f, text |-> shIn.text]
    /\ UNCHANGED <<size, f>> /\ ShKeep

\* compare_app.py:404-409
LblEnter ==
    /\ fpc = "lbl_enter"
    /\ IF FitsWidth(shIn.text, f, shIn.max_w)
         THEN /\ fpc' = "lbl_done"
              /\ shOut' = [font |-> f, text |-> shIn.text]
              /\ UNCHANGED <<size, min_px>>
         ELSE /\ fpc' = "lbl_loop"
              /\ size' = f.size
              /\ min_px' = label_min_px(f.size)
              /\ UNCHANGED shOut
    /\ UNCHANGED <<fontOk, fitIn, f_lbl_cur, f_val_cur, passes, shIn, f, exceptFit>>

\* compare_app.py:410-412; ImageFont.truetype raises when the font of the
\* caller is the built-in one, which has no file to load.
LblShrink ==
    /\ fpc = "lbl_loop"
    /\ shrink_label_cond(size, min_px, shIn.text, f, shIn.max_w)
    /\ size' = size - 1
    /\ IF f.kind = "ttf"
         THEN f' = [size |-> size - 1, kind |-> "ttf"] /\ UNCHANGED fpc
         ELSE fpc' = "lbl_raised" /\ UNCHANGED f
    /\ UNCHANGED shOut /\ ShKeep

\* compare_app.py:413-419
LblReturn ==
    /\ fpc = "lbl_loop"
    /\ ~shrink_label_cond(size, min_px, shIn.text, f, shIn.max_w)
    /\ fpc' = "lbl_done"
    /\ shOut' = [font |-> f,
                 text |-> label_after_loop(shIn.key, shIn.text, f, shIn.max_w)]
    /\ UNCHANGED <<size, f>> /\ ShKeep

NextFit ==
    \/ FitIteration
    \/ StfShrink \/ StfReturn
    \/ LblEnter \/ LblShrink \/ LblReturn

SpecFit == InitFit /\ [][NextFit]_vars


-----------------------------------------------------------------------------
(* render_compare followed for one metric key: its entry in chip_widths,
   then its row on card A, then its row on card B.  The rows of a card
   share nothing but the fonts, so the other keys are left out. *)

CardKeep == UNCHANGED <<exceptCard, cardIn>>

CardFont(sz) == cmp_font(sz, cardIn.ok)

InitCard ==
    /\ cpc = "chips"
    /\ cardIn \in [ok : BOOLEAN, key : LabelKeys, A : ValueTexts, B : ValueTexts]
    /\ chip_widths = {}
    /\ rows = [e \in {"A", "B"} |-> NoRow]
    /\ FitIdle /\ ScoreIdle /\ SelIdle /\ RecIdle

\* compare_app.py:723-731
BuildChipWidths ==
    /\ cpc = "chips"
    /\ chip_widths' = chip_widths_for(cardIn.key, cardIn.A, cardIn.B,
                                      CardFont(CMP_VAL_SZ))
    /\ cpc' = "cardA"
    /\ UNCHANGED rows
    /\ CardKeep

\* draw_company_card for one of the two cards (compare_app.py:742-743);
\* an exception out of it ends render_compare.
DrawCard(e, next) ==
    LET r == draw_row(cardIn.key, cardIn[e], chip_widths,
                      CardFont(CMP_LABEL_SZ), CardFont(CMP_VAL_SZ))
    IN  /\ rows' = [rows EXCEPT ![e] = r]
        /\ cpc' = IF r.drawn THEN next ELSE "raised"
        /\ UNCHANGED chip_widths
        /\ CardKeep

DrawCompanyCardA == cpc = "cardA" /\ DrawCard("A", "cardB")

DrawCompanyCardB == cpc = "cardB" /\ DrawCard("B", "cards_done")

NextCard == BuildChipWidths \/ DrawCompanyCardA \/ DrawCompanyCardB

SpecCard == InitCard /\ [][NextCard]_vars

-----------------------------------------------------------------------------
(* compare_app.py: the scorer (compare_metrics and the tally of
   render_compare).  Points are counted in half points, so 2 is the 1.0
   and 1 is the 0.5 of the code. *)

BETTER_LOW == {"KGV", "Forward PE", "KUV", "Ausschüttungsquote"}

\* A cell of a row: no column or NaN, a text that is no number, a float,
\* a text that spells a number ("15%")
NoneCell == [kind |-> "none", v |-> 0]
TextCell == [kind |-> "text", v |-> 0]
NumCell(v) == [kind |-> "num", v |-> v]
StrCell(v) == [kind |-> "str", v |-> v]

None == [ok |-> FALSE, v |-> 0]
Some(v) == [ok |-> TRUE, v |-> v]

\* A cell holding the text s as it stands in the CSV
RawCell(s) == [kind |-> "raw", v |-> 0, s |-> s]

-----------------------------------------------------------------------------
(* Numbers and their texts.  A float is kept as an integer number of
   thousandths, which is exact for every value used here; str() of a
   float followed by float() gives the float back, so a float cell
   stands for its value. *)

RECURSIVE Pow10(_)
Pow10(n) == IF n = 0 THEN 1 ELSE 10 * Pow10(n - 1)

Abs(x) == IF x < 0 THEN -x ELSE x

DigitChars == <<"0", "1", "2", "3", "4", "5", "6", "7", "8", "9">>

DigitVal(c) == (CHOOSE i \in 1..10 : DigitChars[i] = c) - 1

DigitChar(d) == DigitChars[d + 1]

\* Decimal digits of a natural number
RECURSIVE NatText(_)
NatText(n) ==
    IF n < 10 THEN <<DigitChar(n)>>
    ELSE NatText(n \div 10) \o <<DigitChar(n % 10)>>

\* Value of a run of digits
RECURSIVE NatVal(_)
NatVal(t) ==
    IF t = << >> THEN 0
    ELSE 10 * NatVal(SubSeq(t, 1, Len(t) - 1)) + DigitVal(t[Len(t)])

\* t with the character c removed everywhere: str.replace(c, "")
Without(t, c) == SelectSeq(t, LAMBDA ch : ch # c)

\* t with every c replaced by d: str.replace(c, d) for single characters
Replace(t, c, d) == [i \in 1..Len(t) |-> IF t[i] = c THEN d ELSE t[i]]

\* str.rstrip(c)
RECURSIVE RStrip(_, _)
RStrip(t, c) ==
    IF t # << >> /\ t[Len(t)] = c THEN RStrip(SubSeq(t, 1, Len(t) - 1), c)
    ELSE t

\* str.strip()
RECURSIVE LStrip(_, _)
LStrip(t, c) ==
    IF t # << >> /\ t[1] = c THEN LStrip(Tail(t), c) ELSE t

Strip(t) == LStrip(RStrip(t, " "), " ")

\* float(text): blanks around it, a sign, digits with at most one point
\* and at least one digit; anything else raises ValueError (None here).
\* The exponent, inf and nan spellings are not among the texts used.
ParseFloat(text) ==
    LET t    == Strip(text)
        neg  == t # << >> /\ t[1] = "-"
        body == IF t # << >> /\ t[1] \in {"-", "+"} THEN Tail(t) ELSE t
        dots == {i \in 1..Len(body) : body[i] = "."}
        ok   == /\ \A i \in 1..Len(body) : body[i] \in Digits \cup {"."}
                /\ Cardinality(dots) <= 1
                /\ \E i \in 1..Len(body) : body[i] \in Digits
        dot  == IF dots = {} THEN Len(body) + 1 ELSE CHOOSE i \in dots : TRUE
        ip   == SubSeq(body, 1, dot - 1)
        fp   == SubSeq(body, dot + 1, Min(Len(body), dot + 3))
        mag  == NatVal(ip) * 1000 + NatVal(fp) * Pow10(3 - Len(fp))
    IN  IF ok THEN Some(IF neg THEN -mag ELSE mag) ELSE None

\* The digits t with a point before every group of three: the "," of
\* the format specification, already turned into "."
Grouped(t) ==
    LET n   == Len(t)
        len == n + (n - 1) \div 3
    IN  [i \in 1..len |->
            LET r == len - i + 1
            IN  IF r % 4 = 0 THEN "." ELSE t[n - (r - r \div 4) + 1]]

\* t padded with zeros on the left to n digits
ZeroPad(t, n) == Rep("0", n - Len(t)) \o t

\* compare_app.py:175-179: x with dec decimals, point for thousands,
\* comma for decimals, zeros and a bare comma at the end removed
_fmt_locale(x, dec) ==
    LET unit == Pow10(3 - dec)
        q    == (Abs(x) + unit \div 2) \div unit
        ip   == q \div Pow10(dec)
        fp   == q % Pow10(dec)
        s    == (IF x < 0 THEN <<"-">> ELSE << >>)
                \o Grouped(NatText(ip))
                \o (IF dec > 0 THEN <<",">> \o ZeroPad(NatText(fp), dec)
                    ELSE << >>)
    IN  IF dec > 0 THEN RStrip(RStrip(s, "0"), ",") ELSE s

-----------------------------------------------------------------------------

\* compare_app.py:221-227: None and NaN give None, a number or its
\* spelling gives the number, any other text gives None; of a text the
\* percent signs and blanks are dropped and the comma read as a point
_to_float(x) ==
    IF x.kind \in {"num", "str"} THEN Some(x.v)
    ELSE IF x.kind = "raw"
         THEN ParseFloat(Without(Replace(Without(x.s, "%"), ",", "."), " "))
    ELSE None

\* pd.isna(val): None and NaN
isna(val) == val.kind = "none"

Dash == <<EN_DASH>>

\* str(val) of a cell that holds a text
StrOf(val) == IF val.kind = "raw" THEN val.s ELSE <<"n", "/", "a">>

\* float(text) of the cell, after the caller's own clean-up of the text;
\* a float cell gives its value
FloatOf(val, Clean(_)) ==
    IF val.kind \in {"num", "str"} THEN Some(val.v)
    ELSE ParseFloat(Clean(StrOf(val)))

CommaToPoint(t) == Replace(t, ",", ".")

PercentClean(t) == CommaToPoint(Without(Strip(t), "%"))

\* fmt_number that gives the dash for a text it cannot read
fmt_number_dash_for_text(val, dec) ==
    LET num == FloatOf(val, CommaToPoint)
    IN  IF isna(val) \/ ~num.ok THEN Dash ELSE _fmt_locale(num.v, dec)

\* compare_app.py:181-188
fmt_number(val, dec) ==
    IF isna(val) THEN Dash
    ELSE LET num == FloatOf(val, CommaToPoint)
         IN  IF ~num.ok THEN StrOf(val) ELSE _fmt_locale(num.v, dec)

\* fmt_percent_for that never multiplies
fmt_percent_as_is(key, val, dec) ==
    IF isna(val) THEN Dash
    ELSE LET x == FloatOf(val, PercentClean)
         IN  IF ~x.ok THEN StrOf(val) ELSE _fmt_locale(x.v, dec) \o <<"%">>

\* compare_app.py:190-200; 1.5 is 1500 thousandths
fmt_percent_for(key, val, dec) ==
    IF isna(val) THEN Dash
    ELSE LET x == FloatOf(val, PercentClean)
         IN  IF ~x.ok THEN StrOf(val)
             ELSE _fmt_locale(IF Abs(x.v) <= 1500 THEN x.v * 100 ELSE x.v, dec)
                  \o <<"%">>

\* CURRENCY_SYMBOL.get(cur, cur or "$") (compare_app.py:67-70, 204)
CURRENCY_SYMBOL(cur) ==
    CASE cur = <<"U", "S", "D">> -> <<"$">>
      [] cur = <<"E", "U", "R">> -> <<"€">>
      [] cur = <<"G", "B", "P">> -> <<"£">>
      [] cur = <<"J", "P", "Y">> -> <<"¥">>
      [] cur = <<"C", "H", "F">> -> <<"C", "H", "F">>
      [] cur = <<"C", "A", "D">> -> <<"C", "$">>
      [] cur = <<"A", "U", "D">> -> <<"A", "$">>
      [] cur = <<"H", "K", "D">> -> <<"H", "K", "$">>
      [] cur = <<"I", "N", "R">> -> <<"₹">>
      [] OTHER -> IF cur = << >> THEN <<"$">> ELSE cur

\* compare_app.py:202-205; a missing column gives "", a NaN cell gives
\* str(nan).upper()
currency_label(cols, row) ==
    LET cell == IF "Währung" \in cols THEN row["Währung"] ELSE RawCell(<< >>)
        cur  == IF isna(cell) THEN <<"N", "A", "N">> ELSE StrOf(cell)
    IN  <<"M", "r", "d", " ">> \o CURRENCY_SYMBOL(cur)

\* compare_app.py:249-251, 229-233
numeric_value(key, row) ==
    IF key \in DOMAIN row THEN _to_float(row[key]) ELSE None

\* The sign with every metric taken as higher-is-better
compare_sign_higher_is_better(key, a, b) ==
    IF a > b THEN 1 ELSE IF a < b THEN -1 ELSE 0

\* compare_app.py:103-108
compare_sign(key, a, b) ==
    IF key \in BETTER_LOW
    THEN IF a < b THEN 1 ELSE IF a > b THEN -1 ELSE 0
    ELSE IF a > b THEN 1 ELSE IF a < b THEN -1 ELSE 0

\* compare_app.py:95-109; the metrics are distinct keys, so the dict
\* holds them in the order of the list
compare_metrics(row_left, row_right, metrics) ==
    [i \in 1..Min(6, Len(metrics)) |->
        LET key == metrics[i]
            a   == numeric_value(key, row_left)
            b   == numeric_value(key, row_right)
        IN  [key  |-> key,
             sign |-> IF ~a.ok \/ ~b.ok THEN 0
                      ELSE compare_sign(key, a.v, b.v)]]

\* compare_app.py:745-753; int() of a non-negative total drops the half
winner_badge(l, r) ==
    IF l = r THEN [kind |-> "draw", first |-> l \div 2, second |-> r \div 2]
    ELSE IF l > r THEN [kind |-> "A", first |-> l \div 2, second |-> r \div 2]
    ELSE [kind |-> "B", first |-> r \div 2, second |-> l \div 2]

MaxScored == 2    \* metrics handed to the scorer

ScoreKeys == {"KGV", "Nettomarge", "Marktkapitalisierung"}

Cells == {NoneCell, TextCell, NumCell(10), StrCell(15)}

\* Lists of distinct keys, as select_metrics returns them
MetricLists ==
    UNION {{m \in [1..n -> ScoreKeys] : \A i, j \in 1..n : i # j => m[i] # m[j]} :
             n \in 1..MaxScored}

ScoreKeep == UNCHANGED <<exceptScore, scIn>>

InitScore ==
    /\ spc = "compare"
    /\ \E m \in MetricLists :
         LET ks == {m[i] : i \in 1..Len(m)}
         IN  \E ra \in [ks -> Cells], rb \in [ks -> Cells] :
                scIn = [metrics |-> m, A |-> ra, B |-> rb]
    /\ _cmp = << >>
    /\ left_pts = 0 /\ right_pts = 0 /\ ti = 0
    /\ badge = NoBadge
    /\ FitIdle /\ CardIdle /\ SelIdle /\ RecIdle

\* compare_app.py:734-735
CompareMetrics ==
    /\ spc = "compare"
    /\ _cmp' = compare_metrics(scIn.A, scIn.B, scIn.metrics)
    /\ left_pts' = 0 /\ right_pts' = 0
    /\ ti' = 1
    /\ spc' = "tally"
    /\ UNCHANGED badge
    /\ ScoreKeep

\* One pass of the loop over _cmp.items() (compare_app.py:736-739)
Tally ==
    /\ spc = "tally"
    /\ ti <= Len(_cmp)
    /\ LET sign == _cmp[ti].sign
       IN  IF sign > 0 THEN left_pts' = left_pts + 2 /\ right_pts' = right_pts
           ELSE IF sign < 0 THEN right_pts' = right_pts + 2 /\ left_pts' = left_pts
           ELSE left_pts' = left_pts + 1 /\ right_pts' = right_pts + 1
    /\ ti' = ti + 1
    /\ UNCHANGED <<spc, _cmp, badge>>
    /\ ScoreKeep

\* compare_app.py:745-754, once the loop is over
WinnerBadge ==
    /\ spc = "tally"
    /\ ti > Len(_cmp)
    /\ badge' = winner_badge(left_pts, right_pts)
    /\ spc' = "score_done"
    /\ UNCHANGED <<_cmp, left_pts, right_pts, ti>>
    /\ ScoreKeep

NextScore == CompareMetrics \/ Tally \/ WinnerBadge

SpecScore == InitScore /\ [][NextScore]_vars

-----------------------------------------------------------------------------
(* compare_app.py: select_metrics *)

PERCENT_KEYS ==
    {"Dividendenrendite", "Ausschüttungsquote", "Bruttomarge",
     "Operative Marge", "Nettomarge", "Eigenkapitalrendite",
     "Return on Assets", "ROIC", "Free Cashflow Yield", "Umsatzwachstum",
     "Gewinnwachstum", "Umsatzwachstum 3J (erwartet)", "Umsatzwachstum 10J",
     "Umsatzwachstum 5J", "52Wochen Change", "Insider_Anteil",
     "Institutioneller_Anteil", "Short Interest"}

\* The keys has_value asks a number of (compare_app.py:245)
NumericKeys ==
    {"KGV", "Forward PE", "KUV", "Marktkapitalisierung",
     "Operativer Cashflow", "Free Cashflow"} \cup PERCENT_KEYS

DefaultMetrics ==
    <<"KGV", "Forward PE", "KUV", "Nettomarge", "Eigenkapitalrendite",
      "Umsatzwachstum 3J (erwartet)">>

\* SECTOR_METRICS.get(sec_key, default) (compare_app.py:111-123, 625)
SECTOR_METRICS(sec_key) ==
    CASE sec_key = "communication" ->
           <<"KGV", "KUV", "Nettomarge", "Operative Marge", "Bruttomarge",
             "Umsatzwachstum 10J">>
      [] sec_key = "information technology" ->
           <<"KGV", "Forward PE", "KUV", "Eigenkapitalrendite",
             "Free Cashflow Yield", "Umsatzwachstum 3J (erwartet)">>
      [] sec_key = "consumer discretionary" ->
           <<"KGV", "Forward PE", "KUV", "Operative Marge",
             "Eigenkapitalrendite", "Umsatzwachstum 3J (erwartet)">>
      [] sec_key = "consumer staples" ->
           <<"Dividendenrendite", "Ausschüttungsquote", "KGV", "Nettomarge",
             "Eigenkapitalrendite", "Umsatzwachstum 3J (erwartet)">>
      [] sec_key = "health care" ->
           <<"KGV", "KUV", "Nettomarge", "Bruttomarge", "Eigenkapitalrendite",
             "Umsatzwachstum 10J">>
      [] sec_key = "financials" ->
           <<"KGV", "KUV", "Eigenkapitalrendite", "Nettomarge",
             "Dividendenrendite", "Umsatzwachstum 10J">>
      [] sec_key = "industrials" ->
           <<"KGV", "KUV", "Operative Marge", "Eigenkapitalrendite",
             "Free Cashflow Yield", "Umsatzwachstum 10J">>
      [] sec_key = "materials" ->
           <<"KGV", "KUV", "Operative Marge", "Nettomarge",
             "Eigenkapitalrendite", "Umsatzwachstum 10J">>
      [] sec_key = "energy" ->
           <<"KGV", "KUV", "Nettomarge", "Free Cashflow Yield",
             "Dividendenrendite", "Umsatzwachstum 10J">>
      [] sec_key = "utilities" ->
           <<"Dividendenrendite", "Ausschüttungsquote", "KGV", "Nettomarge",
             "Free Cashflow Yield", "Umsatzwachstum 10J">>
      [] sec_key = "real estate" ->
           <<"Dividendenrendite", "Ausschüttungsquote", "KGV", "KUV",
             "Nettomarge", "Umsatzwachstum 10J">>
      [] OTHER -> DefaultMetrics

\* compare_app.py:626-628
fallback ==
    <<"KGV", "Forward PE", "KUV", "Nettomarge", "Operative Marge",
      "Bruttomarge", "Eigenkapitalrendite", "Free Cashflow Yield",
      "Marktkapitalisierung", "Umsatzwachstum 3J (erwartet)",
      "Umsatzwachstum 10J", "Dividendenrendite">>

SeqToSet(q) == {q[i] : i \in 1..Len(q)}

Take(q, n) == SubSeq(q, 1, Min(n, Len(q)))

\* m.strip() is empty
IsBlank(m) == m \in {"", " "}

KeepStr(m) == ~IsBlank(m)

\* compare_app.py:622-625
base_metrics(req_metrics, sec_key) ==
    IF req_metrics # << >> THEN SelectSeq(req_metrics, KeepStr)
    ELSE SECTOR_METRICS(sec_key)

\* base + [k for k in fallback if k not in base] (compare_app.py:631)
candidates(req_metrics, sec_key) ==
    LET base == base_metrics(req_metrics, sec_key)
        NotInBase(k) == k \notin SeqToSet(base)
    IN  base \o SelectSeq(fallback, NotInBase)

\* COLUMN_ALIASES.get(key, []) (compare_app.py:135-150, 217)
COLUMN_ALIASES(key) ==
    CASE key = "Nettomarge" ->
           <<"Nettomarge", "Net Margin", "Net Profit Margin", "Profit Margin",
             "profitMargins", "netProfitMargin", "netMargin">>
      [] key = "Operative Marge" ->
           <<"Operative Marge", "Operating Margin", "operatingMargins">>
      [] key = "Bruttomarge" ->
           <<"Bruttomarge", "Gross Margin", "grossMargins">>
      [] key = "Marktkapitalisierung" ->
           <<"Marktkapitalisierung", "Market Cap", "marketCap", "MarketCap">>
      [] key = "Dividendenrendite" ->
           <<"Dividendenrendite", "Dividend Yield", "dividendYield">>
      [] key = "Eigenkapitalrendite" ->
           <<"Eigenkapitalrendite", "Return on Equity", "ROE", "returnOnEquity">>
      [] key = "KGV" -> <<"KGV", "PE", "trailingPE">>
      [] key = "Forward PE" -> <<"Forward PE", "forwardPE">>
      [] key = "KUV" ->
           <<"KUV", "Price to Sales", "priceToSalesTrailing12Months">>
      [] key = "Free Cashflow Yield" ->
           <<"Free Cashflow Yield", "freeCashflowYield", "fcfYield">>
      [] key = "Analysten_Kursziel" ->
           <<"Analysten_Kursziel", "Target Mean Price", "targetMeanPrice">>
      [] key = "Preis" -> <<"Preis", "Close", "Last", "Vortagesschlusskurs">>
      [] key = "Umsatzwachstum 10J" ->
           <<"Umsatzwachstum 10J", "Revenue Growth 10Y", "revenueGrowth10Y">>
      [] key = "Umsatzwachstum 3J (erwartet)" ->
           <<"Umsatzwachstum 3J (erwartet)", "Revenue Growth 3Y (fwd)",
             "revenueGrowth3YForward">>
      [] OTHER -> << >>

NoCol == [found |-> FALSE, col |-> ""]
Col(c) == [found |-> TRUE, col |-> c]

\* The for loop over the aliases (compare_app.py:216-218)
RECURSIVE first_alias_in(_, _)
first_alias_in(alts, cols) ==
    IF alts = << >> THEN NoCol
    ELSE IF Head(alts) \in cols THEN Col(Head(alts))
    ELSE first_alias_in(Tail(alts), cols)

\* The lookup with the canonical key only
resolve_col_without_aliases(cols, key) ==
    IF key \in cols THEN Col(key) ELSE NoCol

\* compare_app.py:212-219; cols is the set of column names of the row
resolve_col(cols, key) ==
    IF key \in cols THEN Col(key)
    ELSE first_alias_in(COLUMN_ALIASES(key), cols)

\* compare_app.py:229-233; row maps each column name to its cell
_get_val(cols, row, key) ==
    LET col == resolve_col(cols, key)
    IN  IF col.found THEN row[col.col] ELSE NoneCell

\* compare_app.py:235-247
has_value(cols, row, key) ==
    LET col == resolve_col(cols, key)
    IN  /\ col.found
        /\ row[col.col].kind # "none"
        /\ key \in NumericKeys => _to_float(row[col.col]).ok

RatioKeys == {"KGV", "Forward PE", "KUV"}

\* The keys shown in billions.  Their float cells count millions, so
\* that v / 1e9 in thousandths is the number of the cell.
BillionKeys == {"Marktkapitalisierung", "Operativer Cashflow", "Free Cashflow"}

\* compare_app.py:253-275
display_value(key, cols, row) ==
    LET val == _get_val(cols, row, key)
        v   == _to_float(val)
    IN  IF key \in PERCENT_KEYS THEN fmt_percent_for(key, val, 1)
        ELSE IF key \in BillionKeys
             THEN IF ~v.ok THEN Dash
                  ELSE _fmt_locale(v.v, 1) \o <<" ">> \o currency_label(cols, row)
        ELSE IF key \in RatioKeys
             THEN IF ~v.ok THEN Dash
                  ELSE fmt_number(NumCell(v.v),
                                  IF Abs(v.v) >= 100000 THEN 0 ELSE 2)
        ELSE fmt_number(val, 2)

\* The loop that fills order (compare_app.py:630-633); both rows are
\* rows of one frame and have the same columns
RECURSIVE build_order(_, _, _)
build_order(cand, cols, acc) ==
    IF cand = << >> THEN acc
    ELSE LET key == Head(cand)
         IN  build_order(Tail(cand), cols,
                         IF key \notin SeqToSet(acc) /\ resolve_col(cols, key).found
                         THEN Append(acc, key) ELSE acc)

\* compare_app.py:635-642
both_of(ord, cols, ra, rb) ==
    LET InBoth(k) == has_value(cols, ra, k) /\ has_value(cols, rb, k)
    IN  SelectSeq(ord, InBoth)

either_of(ord, cols, ra, rb) ==
    LET InOne(k) == has_value(cols, ra, k) # has_value(cols, rb, k)
    IN  SelectSeq(ord, InOne)

\* The choice with the keys of one entity put first
choose_selection_either_first(ord, b, e) ==
    LET s0 == Take(e \o b, 6)
        NotChosen(k) == k \notin SeqToSet(s0)
    IN  IF Len(s0) < 3 THEN Take(SelectSeq(ord, NotChosen), 6) ELSE s0

\* compare_app.py:644-647
choose_selection(ord, b, e) ==
    LET s0 == Take(b \o e, 6)
        NotChosen(k) == k \notin SeqToSet(s0)
    IN  IF Len(s0) < 3 THEN Take(SelectSeq(ord, NotChosen), 6) ELSE s0

NTracked == 3    \* keys whose cells vary on their own

\* The keys select_metrics can meet: the catalog, the sector lists, one
\* requested key outside both
TrackOrder == <<"KGV", "Beta", "KUV", "Forward PE", "Nettomarge">>

TrackedKeys == SeqToSet(Take(TrackOrder, NTracked))

SelKeys ==
    SeqToSet(fallback) \cup {"Ausschüttungsquote", "Beta"}

\* What the frame holds for a key: no column; or the cells of A and B,
\* each empty (n), a number (v) or a text that is no number (t)
KeyStates == {"nocol", "nn", "nv", "vn", "vv", "tv"}

CellOf(c) ==
    IF c = "v" THEN NumCell(10) ELSE IF c = "t" THEN TextCell ELSE NoneCell

CellA(st) ==
    IF st = "nocol" THEN NoneCell
    ELSE CellOf(IF st \in {"vn", "vv"} THEN "v" ELSE IF st = "tv" THEN "t" ELSE "n")

CellB(st) ==
    IF st = "nocol" THEN NoneCell
    ELSE CellOf(IF st \in {"nv", "vv", "tv"} THEN "v" ELSE "n")

ReqLists ==
    {<< >>, <<"Nettomarge", " ", "Beta", "Nettomarge", "KGV">>}

SecKeys == {"", "financials", "utilities"}

SelKeep == UNCHANGED <<exceptSel, selIn>>

InitSelect ==
    /\ selpc = "order"
    /\ \E req \in ReqLists, sec \in SecKeys, dflt \in {"nocol", "nn", "vn", "vv"},
          t \in [TrackedKeys -> KeyStates] :
         LET st(k) == IF k \in TrackedKeys THEN t[k] ELSE dflt
         IN  selIn = [req  |-> req,
                      sec  |-> sec,
                      cols |-> {k \in SelKeys : st(k) # "nocol"},
                      A    |-> [k \in SelKeys |-> CellA(st(k))],
                      B    |-> [k \in SelKeys |-> CellB(st(k))]]
    /\ order = << >> /\ both = << >> /\ either = << >> /\ sel = << >>
    /\ FitIdle /\ CardIdle /\ ScoreIdle /\ RecIdle

\* compare_app.py:622-633
BuildOrder ==
    /\ selpc = "order"
    /\ order' = build_order(candidates(selIn.req, selIn.sec), selIn.cols, << >>)
    /\ selpc' = "partition"
    /\ UNCHANGED <<both, either, sel>>
    /\ SelKeep

\* compare_app.py:635-642
Partition ==
    /\ selpc = "partition"
    /\ both' = both_of(order, selIn.cols, selIn.A, selIn.B)
    /\ either' = either_of(order, selIn.cols, selIn.A, selIn.B)
    /\ selpc' = "choose"
    /\ UNCHANGED <<order, sel>>
    /\ SelKeep

\* compare_app.py:644-647
ChooseSelection ==
    /\ selpc = "choose"
    /\ sel' = choose_selection(order, both, either)
    /\ selpc' = "sel_done"
    /\ UNCHANGED <<order, both, either>>
    /\ SelKeep

NextSelect == BuildOrder \/ Partition \/ ChooseSelection

SpecSelect == InitSelect /\ [][NextSelect]_vars

-----------------------------------------------------------------------------
(* Single calls of the resolvers and formatters of compare_app.py: the
   arguments are drawn at the start, one action makes the call. *)

PureKeep == KeepExcept("pureCall")

\* The keys looked up: with aliases, without, with the CSV's own column
\* among the aliases
ResolveKeys == {"KGV", "Eigenkapitalrendite", "Beta", "Preis"}

\* The columns a frame can have that matter to the lookup of key
ColumnsFor(key) == {key, "Symbol"} \cup SeqToSet(COLUMN_ALIASES(key))

AllColumns ==
    <<"Symbol", "Beta", "KGV", "PE", "trailingPE", "Eigenkapitalrendite",
      "Return on Equity", "ROE", "returnOnEquity", "Preis", "Close", "Last",
      "Vortagesschlusskurs">>

\* A row whose cells differ from column to column
RowOver(cols) ==
    [c \in cols |->
        NumCell(CHOOSE i \in 1..Len(AllColumns) : AllColumns[i] = c)]

InitGetVal ==
    /\ \E key \in ResolveKeys :
         \E cols \in SUBSET ColumnsFor(key) :
            pureCall = [pc |-> "call", fn |-> "_get_val", key |-> key,
                        cols |-> cols, row |-> RowOver(cols)]
    /\ IdleExcept("pureCall")

\* _get_val(row, key) and the resolve_col inside it
GetVal ==
    /\ pureCall.pc = "call" /\ pureCall.fn = "_get_val"
    /\ pureCall' =
         [pc |-> "done", fn |-> "_get_val", key |-> pureCall.key,
          cols |-> pureCall.cols, row |-> pureCall.row,
          col |-> resolve_col(pureCall.cols, pureCall.key),
          val |-> _get_val(pureCall.cols, pureCall.row, pureCall.key)]
    /\ PureKeep

\* Floats, in thousandths: from 0.001 to beyond a thousand, both signs,
\* the 1.5 of fmt_percent_for with its two neighbours, and every
\* hundredth within ThresholdSpan hundredths of it.  None lies halfway
\* between two roundings, and none is rounded to a negative zero.
ThresholdSpan == 4

FloatValues ==
    {0, 1, 10, 42, 123, 1000, 1499, 1501, 4200, 28330, 42000, 99996, 100000,
     150000, 999999, 1234000, 1234560, -10, -42, -1499, -1501, -4200, -1234560}
    \cup {s * (1500 + 10 * d) :
            s \in {-1, 1}, d \in (-ThresholdSpan)..ThresholdSpan}

\* Texts of numbers as a CSV can hold them
NumberTexts ==
    {<<"0", ".", "0", "4", "2">>, <<"4", "2">>, <<"4", ".", "2">>,
     <<"4", ",", "2", "%">>, <<" ", "1", "2", ",", "5", " ">>,
     <<"1", ".", "5">>, <<"-", "0", ".", "5">>}

\* Texts that are no number for any of the parsers
MalformedTexts ==
    {<<"n", "/", "a">>, <<"1", ".", "2", ".", "3">>, <<"-">>,
     <<"1", "2", "a">>, <<" ">>}

FloatCells == {NumCell(v) : v \in FloatValues}

PercentKeysUsed == {"Nettomarge", "Dividendenrendite"}

\* Every raw value a formatter can be handed: None or NaN, a float, the
\* text of a number, a text that is no number
AnyCells ==
    {NoneCell} \cup FloatCells
    \cup {RawCell(t) : t \in NumberTexts \cup MalformedTexts}

Call(fn, key, val) ==
    [pc |-> "call", fn |-> fn, key |-> key, val |-> val, out |-> << >>]

Return(out) == [pureCall EXCEPT !.pc = "done", !.out = out]

InitFmtPercent ==
    /\ \E key \in PercentKeysUsed, val \in AnyCells :
         pureCall = Call("fmt_percent_for", key, val)
    /\ IdleExcept("pureCall")

\* fmt_percent_for(key, val) with its default of one decimal
FmtPercentFor ==
    /\ pureCall.pc = "call" /\ pureCall.fn = "fmt_percent_for"
    /\ pureCall' = Return(fmt_percent_for(pureCall.key, pureCall.val, 1))
    /\ PureKeep

\* fmt_number is called with 2 decimals, and with 0 for large ratios
InitFmtNumber ==
    /\ \E dec \in {0, 2}, val \in AnyCells :
         pureCall = [pc |-> "call", fn |-> "fmt_number", key |-> "",
                     val |-> val, out |-> << >>, dec |-> dec]
    /\ IdleExcept("pureCall")

\* fmt_number(val, dec)
FmtNumber ==
    /\ pureCall.pc = "call" /\ pureCall.fn = "fmt_number"
    /\ pureCall' = Return(fmt_number(pureCall.val, pureCall.dec))
    /\ PureKeep

\* One key of each branch of display_value
DisplayKeys == {"Nettomarge", "Marktkapitalisierung", "KGV", "Free Cashflow", "Beta"}

\* The row either lacks the column of the key or holds val in it
InitDisplayValue ==
    /\ \E key \in DisplayKeys, val \in AnyCells, hasCol \in BOOLEAN :
         /\ hasCol \/ val = NoneCell
         /\ pureCall = [pc |-> "call", fn |-> "display_value", key |-> key,
                        val |-> val, out |-> << >>,
                        cols |-> IF hasCol THEN {key} ELSE {}]
    /\ IdleExcept("pureCall")

\* display_value(key, row)
DisplayValue ==
    /\ pureCall.pc = "call" /\ pureCall.fn = "display_value"
    /\ pureCall' = Return(display_value(pureCall.key, pureCall.cols,
                                        [c \in pureCall.cols |-> pureCall.val]))
    /\ PureKeep

\* One key of each kind of metric: plain number, percent, ratio
RoundTripKeys == {"Beta", "Nettomarge", "KGV"}

\* display_value for a row that holds val under the key's own name
format(key, val) == display_value(key, {key}, [c \in {key} |-> val])

\* The display text read back as a cell: the float _to_float makes of
\* it, or nothing
parse(text) ==
    LET x == _to_float(RawCell(text))
    IN  IF x.ok THEN NumCell(x.v) ELSE NoneCell

InitRoundTrip ==
    /\ \E key \in RoundTripKeys, val \in FloatCells :
         pureCall = [pc |-> "format", fn |-> "round_trip", key |-> key,
                     val |-> val, first |-> << >>, back |-> NoneCell,
                     second |-> << >>]
    /\ IdleExcept("pureCall")

\* display_value of the value (compare_app.py:253-275)
FormatFirst ==
    /\ pureCall.pc = "format" /\ pureCall.fn = "round_trip"
    /\ pureCall' = [pureCall EXCEPT !.pc = "parse",
                                    !.first = format(pureCall.key, pureCall.val)]
    /\ PureKeep

\* _to_float of the display text (compare_app.py:221-227)
ParseBack ==
    /\ pureCall.pc = "parse" /\ pureCall.fn = "round_trip"
    /\ pureCall' = [pureCall EXCEPT !.pc = "format_again",
                                    !.back = parse(pureCall.first)]
    /\ PureKeep

\* display_value of what was read back
FormatAgain ==
    /\ pureCall.pc = "format_again" /\ pureCall.fn = "round_trip"
    /\ pureCall' = [pureCall EXCEPT !.pc = "done",
                                    !.second = format(pureCall.key, pureCall.back)]
    /\ PureKeep

\* Widths of the box the value text is to fit, in pixels: the inside
\* of the widest chip and narrower ones
TrimBoxes == {max_chip_w - 20, 100, 60, 20}

InitTrim ==
    /\ \E text \in ValueTexts, ok \in BOOLEAN, w \in TrimBoxes :
         pureCall = [pc |-> IF FitsWidth(text, cmp_font(CMP_VAL_SZ, ok), w)
                            THEN "trim_fits" ELSE "trim_loop",
                     fn |-> "trim_numeric_text_to_fit", text |-> text,
                     font |-> cmp_font(CMP_VAL_SZ, ok), max_width |-> w,
                     s |-> text, out |-> << >>]
    /\ IdleExcept("pureCall")

\* The text fits as it is (compare_app.py:372-373)
TrimFits ==
    /\ pureCall.pc = "trim_fits"
    /\ pureCall' = Return(pureCall.text)
    /\ PureKeep

\* One pass of the while loop that shortens (compare_app.py:375-384)
TrimShorten ==
    /\ pureCall.pc = "trim_loop"
    /\ ~FitsWidth(pureCall.s, pureCall.font, pureCall.max_width)
    /\ LET m == LastMatch(pureCall.s, 1, NoMatch)
       IN  /\ m.found
           /\ pureCall' = [pureCall EXCEPT !.s = trim_once(pureCall.s, m)]
    /\ PureKeep

\* The loop ends, by its condition or by the break, and the function
\* returns (compare_app.py:375, 377-378, 385-387)
TrimReturn ==
    /\ pureCall.pc = "trim_loop"
    /\ \/ FitsWidth(pureCall.s, pureCall.font, pureCall.max_width)
       \/ ~LastMatch(pureCall.s, 1, NoMatch).found
    /\ pureCall' =
         Return(IF FitsWidth(pureCall.s, pureCall.font, pureCall.max_width)
                THEN pureCall.s
                ELSE ellipsize_to_fit(pureCall.s, pureCall.font,
                                      pureCall.max_width))
    /\ PureKeep

\* The canvas render_compare draws on, <<width, height>>, and others on
\* which the same layout code is laid out
Canvases ==
    {<<OUTPUT_WIDTH, OUTPUT_HEIGHT>>, <<1080, 1080>>, <<1920, 1080>>,
     <<2400, 1080>>, <<1200, 630>>}

\* int(n * frac) for a fraction given in thousandths
Frac(n, thousandths) == (n * thousandths) \div 1000

\* f_lbl_small and f_val_small (compare_app.py:676-677, 688-689)
f_lbl_small(W, ok) ==
    cmp_font(Max(18, (Max(26, Frac(W, 34)) * 84) \div 100), ok)
f_val_small(W, ok) ==
    cmp_font(Max(18, (Max(28, Frac(W, 36)) * 84) \div 100), ok)

\* Lower edge of the two cards (compare_app.py:708, 712-715)
cards_bottom(H) == Frac(H, 155) + Frac(H, 420)

\* "safe_bottom = img.height - int(img.height * SAFE_BOTTOM_FRAC) - 12"
safe_bottom(H) == H - Frac(H, 180) - 12

\* est_pill_h and est_bar_h (compare_app.py:758-759)
est_pill_h(fv) == fv.size * 2 + 10
est_bar_h(fv, fl) == Max(14, fv.size \div 2) + 4 + fl.size + 2

\* need_bottom (compare_app.py:760, 766)
need_bottom(H, fv, fl) ==
    cards_bottom(H) + Frac(H, 12) + est_pill_h(fv) + Frac(H, 14)
      + est_bar_h(fv, fl)

\* The clamp without the lower limit under the cards and without the
\* flat lift
bottom_clamp_by_overflow(y, extra, H) ==
    IF extra < 0 THEN y + extra ELSE y + Max(0, extra - Frac(H, 10))

\* y_pills after the clamp and the flat lift (compare_app.py:769-778)
bottom_clamp(y, extra, H) ==
    (IF extra < 0 THEN Max(cards_bottom(H) + 2, y + extra)
                  ELSE y + Max(0, extra - Frac(H, 10)))
      - Frac(H, 15)

\* What draw_stat_pills returns (compare_app.py:543-545, 562, 572)
pills_end(y, fv, drawn) == IF drawn THEN y + fv.size * 2 + 10 ELSE y

\* "1=K * 3=H * 5=V", the second line under the bar
Sub2 == <<"1", "=", "K", " ", "*", " ", "3", "=", "H", " ", "*", " ",
          "5", "=", "V">>

\* The loop that shrinks f_small (compare_app.py:609-612)
RECURSIVE f_small_loop(_, _, _)
f_small_loop(font, width, ok) ==
    IF IntLen(Sub2, font) > width /\ font.size > 10
    THEN f_small_loop(cmp_font(font.size - 1, ok), width, ok)
    ELSE font

\* What draw_analyst_bar returns (compare_app.py:575-578, 583, 604,
\* 609-617)
bar_end(y, width, fv, fl, ok, drawn) ==
    IF drawn
    THEN y + Max(14, fv.size \div 2) + 4 + fl.size
           + f_small_loop(cmp_font(Max(12, (fl.size * 9) \div 10), ok),
                          width, ok).size + 2
    ELSE y

\* The lower block of render_compare (compare_app.py:757-804): the pills
\* and the bar of both cards, then the footer line
lower_block(W, H, ok, pills, bars) ==
    LET fv      == f_val_small(W, ok)
        fl      == f_lbl_small(W, ok)
        cw      == (W - 2 * Frac(W, 60) - Frac(W, 40)) \div 2
        y0      == cards_bottom(H) + Frac(H, 12)
        extra   == safe_bottom(H) - need_bottom(H, fv, fl)
        y_pills == bottom_clamp(y0, extra, H)
        y_bar   == Max(pills_end(y_pills, fv, pills[1]),
                       pills_end(y_pills, fv, pills[2])) + Frac(H, 12)
        bottom  == Max(bar_end(y_bar, (cw * 84) \div 100, fv, fl, ok, bars[1]),
                       bar_end(y_bar, (cw * 84) \div 100, fv, fl, ok, bars[2]))
    IN  [y_start |-> y0, extra |-> extra, y_pills |-> y_pills,
         est_end |-> y_pills + need_bottom(H, fv, fl) - y0,
         bottom |-> bottom,
         fy |-> Max(bottom + Frac(H, 20), H - (H * 1728) \div 10000)]

\* Two rows, each with or without price and target, with or without a
\* mean recommendation
InitLowerBlock ==
    /\ \E cv \in Canvases, ok \in BOOLEAN,
          pills \in [1..2 -> BOOLEAN], bars \in [1..2 -> BOOLEAN] :
         pureCall = [pc |-> "call", fn |-> "lower_block", key |-> "",
                     val |-> << >>, out |-> << >>, W |-> cv[1], H |-> cv[2],
                     ok |-> ok, pills |-> pills, bars |-> bars]
    /\ IdleExcept("pureCall")

LowerBlock ==
    /\ pureCall.pc = "call" /\ pureCall.fn = "lower_block"
    /\ pureCall' = Return(lower_block(pureCall.W, pureCall.H, pureCall.ok,
                                      pureCall.pills, pureCall.bars))
    /\ PureKeep

\* (r, g, b) of COLOR_TEXT, COLOR_BETTER, COLOR_WORSE, COLOR_MUTED
\* (compare_app.py:52-55)
COLOR_TEXT   == <<20, 24, 28>>
COLOR_BETTER == <<17, 146, 74>>
COLOR_WORSE  == <<196, 59, 43>>
COLOR_MUTED  == <<95, 103, 112>>

\* _price_target_data (compare_app.py:500-506): price and target, or None
_price_target_data(price_cell, target_cell) ==
    LET p == _to_float(price_cell)
        t == _to_float(target_cell)
    IN  IF ~p.ok \/ ~t.ok \/ p.v <= 0 THEN None ELSE Some(<<p.v, t.v>>)

\* a / b rounded to the nearest integer, b > 0
RoundDiv(a, b) == IF 2 * (a % b) >= b THEN a \div b + 1 ELSE a \div b

\* "pot = (target/price - 1.0) * 100.0", in thousandths of a percent
pot_of(price, target) == RoundDiv((target - price) * 100000, price)

\* fcur (compare_app.py:207-208)
fcur(x, sym, dec) ==
    IF sym \in {<<"$">>, <<"€">>, <<"£">>, <<"¥">>}
    THEN sym \o _fmt_locale(x, dec) ELSE _fmt_locale(x, dec) \o sym

\* Width of one of the three pills (compare_app.py:557-560)
pill_w(W) ==
    LET cw == (W - 2 * Frac(W, 60) - Frac(W, 40)) \div 2
    IN  ((cw * 92) \div 100 - 2 * Frac(W, 12)) \div 3

\* draw_stat_pills (compare_app.py:542-572): nothing without price and
\* target; else three pills, each with its label in COLOR_MUTED and its
\* value, trimmed to the pill, in COLOR_TEXT
draw_stat_pills(price_cell, target_cell, cur, fv) ==
    LET info == _price_target_data(price_cell, target_cell)
    IN  IF ~info.ok THEN [drawn |-> FALSE, pot |-> 0, items |-> << >>]
        ELSE
          LET price  == info.v[1]
              target == info.v[2]
              sym    == CURRENCY_SYMBOL(cur)
              pot    == pot_of(price, target)
              arrow  == IF pot >= 0 THEN "▲" ELSE "▼"
              pill(lab, val) ==
                  [lab |-> lab, lab_fill |-> COLOR_MUTED, val |-> val,
                   vfit |-> trim_numeric_text_to_fit(
                                val, fv, pill_w(OUTPUT_WIDTH) - 20),
                   fill |-> COLOR_TEXT]
          IN  [drawn |-> TRUE, pot |-> pot,
               items |-> <<pill("Kurs", fcur(price, sym, 0)),
                           pill("Ziel", fcur(target, sym, 0)),
                           pill("Pot.", <<arrow, " ">>
                                          \o _fmt_locale(pot, 1)
                                          \o <<"%">>)>>]

\* Cells of "Vortagesschlusskurs" and "Analysten_Kursziel": missing, a
\* float, the text of a number, a text that is none
PillCells ==
    {NoneCell, NumCell(0), NumCell(-4200), NumCell(8000), NumCell(10000),
     NumCell(10004), NumCell(15000),
     RawCell(<<"4", ",", "2">>), RawCell(<<"n", "/", "a">>)}

InitStatPills ==
    /\ \E pc \in PillCells, tc \in PillCells, ok \in BOOLEAN,
          cur \in {<<"U", "S", "D">>, <<"C", "H", "F">>, << >>} :
         pureCall = [pc |-> "call", fn |-> "draw_stat_pills", key |-> "",
                     val |-> << >>, out |-> << >>, price |-> pc,
                     target |-> tc, cur |-> cur, ok |-> ok]
    /\ IdleExcept("pureCall")

DrawStatPills ==
    /\ pureCall.pc = "call" /\ pureCall.fn = "draw_stat_pills"
    /\ pureCall' = Return(draw_stat_pills(
                              pureCall.price, pureCall.target, pureCall.cur,
                              f_val_small(OUTPUT_WIDTH, pureCall.ok)))
    /\ PureKeep

\* Content widths of a card: that of render_compare and narrow ones
ContentWidths == {content_w} \cup 60..200

\* int(draw.textlength(val_txt)) of the value of the card and of the
\* other card
TextWidths == {12 * k : k \in 0..16}

InitChipClamp ==
    /\ \E cw_px \in ContentWidths, tw \in TextWidths, other \in TextWidths :
         pureCall = [pc |-> "call", fn |-> "chip_clamp", key |-> "",
                     val |-> << >>, out |-> << >>, content_w |-> cw_px,
                     base_w |-> tw + 24, shared |-> Max(tw, other) + 24]
    /\ IdleExcept("pureCall")

\* "suggested = max(base_w, chip_widths.get(key, base_w))" and the clamp
\* (compare_app.py:469-473)
ChipClamp ==
    /\ pureCall.pc = "call" /\ pureCall.fn = "chip_clamp"
    /\ pureCall' = Return(chip_clamp(pureCall.content_w,
                                     Max(pureCall.base_w, pureCall.shared)))
    /\ PureKeep

InitPure ==
    \/ InitTrim
    \/ InitGetVal \/ InitFmtPercent \/ InitFmtNumber \/ InitDisplayValue
    \/ InitRoundTrip
    \/ InitLowerBlock \/ InitStatPills \/ InitChipClamp

NextPure ==
    \/ GetVal \/ FmtPercentFor \/ FmtNumber \/ DisplayValue
    \/ FormatFirst \/ ParseBack \/ FormatAgain
    \/ TrimFits \/ TrimShorten \/ TrimReturn
    \/ LowerBlock \/ DrawStatPills \/ ChipClamp

SpecPure == InitPure /\ [][NextPure]_vars

-----------------------------------------------------------------------------
(* app.py: the hyphenation loop of wrap_text *)

MaxWordLen == 5   \* characters of a word handed to the loop

\* A wide letter, a narrow point and a hyphen of the word itself
WordChars == {"W", ".", "-"}

Words == UNION {[1..n -> WordChars] : n \in 1..MaxWordLen}

\* max_w in pixels
WrapWidths == {10, 30, 60, 100}

\* "w[:mid] + '-'"
Trial(w, mid) == SubSeq(w, 1, mid) \o <<"-">>

\* The split after the first character, whatever fits
hyphen_pos_first_char(w, font, max_w) == 1

\* The binary search "while lo <= hi" (app.py:276-283)
RECURSIVE hyphen_search(_, _, _, _, _, _)
hyphen_search(w, lo, hi, pos, font, max_w) ==
    IF lo <= hi
    THEN LET mid == (lo + hi) \div 2
         IN  IF FitsWidth(Trial(w, mid), font, max_w)
             THEN hyphen_search(w, mid + 1, hi, mid, font, max_w)
             ELSE hyphen_search(w, lo, mid - 1, pos, font, max_w)
    ELSE pos

\* "lo, hi, pos = 1, len(w), 1" and the search (app.py:275-283)
hyphen_pos(w, font, max_w) == hyphen_search(w, 1, Len(w), 1, font, max_w)

\* "draw.textlength(w, font=font) > max_w and len(w) > 1" (app.py:274)
hyphen_cond(w, font, max_w) == ~FitsWidth(w, font, max_w) /\ Len(w) > 1

\* A word has come to the else branch with cur already put away
\* (app.py:262-273): w = word, lines holds what the loop appends
InitWrap ==
    /\ \E word \in Words, max_w \in WrapWidths, ok \in BOOLEAN :
         pureCall = [pc |-> "while", fn |-> "wrap_text", word |-> word,
                     w |-> word, lines |-> << >>, cur |-> << >>,
                     font |-> app_font(MIN_FONT, ok), max_w |-> max_w]
    /\ IdleExcept("pureCall")

\* One round of the loop (app.py:274-285)
HyphenRound ==
    /\ pureCall.pc = "while"
    /\ hyphen_cond(pureCall.w, pureCall.font, pureCall.max_w)
    /\ LET pos == hyphen_pos(pureCall.w, pureCall.font, pureCall.max_w)
       IN  pureCall' = [pureCall EXCEPT
                          !.lines = Append(@, Trial(pureCall.w, pos)),
                          !.w = SubSeq(@, pos + 1, Len(@))]
    /\ PureKeep

\* The loop is left, "cur = w" (app.py:286)
HyphenExit ==
    /\ pureCall.pc = "while"
    /\ ~hyphen_cond(pureCall.w, pureCall.font, pureCall.max_w)
    /\ pureCall' = [pureCall EXCEPT !.pc = "done", !.cur = pureCall.w]
    /\ PureKeep

NextWrap == HyphenRound \/ HyphenExit

SpecWrap == InitWrap /\ [][NextWrap]_vars

\* The loop is run as long as it can be
FairSpecWrap == SpecWrap /\ WF_vars(NextWrap)

-----------------------------------------------------------------------------
(* render_compare run with the font files present or missing *)

MaxKeyLen == 45   \* characters of a column name of the CSV

\* _font (compare_app.py:32-49): the file at path, else DejaVuSans of
\* the system, both TrueType fonts that carry their path and scale with
\* the size; else the backup font tagged with the size.
_font(path_ok, dejavu_ok, sz) == cmp_font(sz, path_ok \/ dejavu_ok)

\* shrink_to_fit (compare_app.py:336-342); every pass reloads with _font
RECURSIVE shrink_to_fit(_, _, _, _, _)
shrink_to_fit(text, font, max_width, floor, ok) ==
    IF shrink_to_fit_cond(font.size, floor, text, font, max_width)
    THEN shrink_to_fit(text, cmp_font(font.size - 1, ok), max_width, floor, ok)
    ELSE font

\* The label of one row of draw_company_card for a column LABELS does
\* not know: the column name with a colon, in the box beside the chip
\* (compare_app.py:464-480)
card_label(name, val_txt, cw, f_lbl, f_val) ==
    LET has_val     == HasVal(val_txt)
        chip_w      == IF has_val THEN chip_width(val_txt, "Key", cw, f_val)
                       ELSE 0
        max_label_w == content_w
                       - (IF has_val THEN chip_w ELSE (f_val.size * 25) \div 10)
                       - 16
    IN  shrink_label_to_fit_for_key("Key", name \o <<":">>, f_lbl, max_label_w)

\* The badge font (compare_app.py:515-522): any failure to load gives
\* load_default()
badge_font(bld_ok) ==
    [size |-> Max(20, (OUTPUT_WIDTH * 30) \div 1000),
     kind |-> IF bld_ok THEN "ttf" ELSE "builtin"]

RenderValues == {<<EN_DASH>>, <<"8">>, <<"8", "8", ",", "8", "8", "%">>}

RenderTitles == {10, MaxTitleLen}

InitRender ==
    /\ \E reg \in BOOLEAN, bld \in BOOLEAN, dejavu \in BOOLEAN,
          n \in 1..MaxKeyLen, ta \in RenderValues, tb \in RenderValues,
          tl \in RenderTitles :
         render = [pc |-> "fonts", reg |-> reg, bld |-> bld,
                   dejavu |-> dejavu, name |-> Rep("a", n),
                   title |-> Rep("a", tl), val_a |-> ta, val_b |-> tb,
                   f_title |-> NoFont, f_lbl |-> NoFont, f_val |-> NoFont,
                   f_badge |-> NoFont, f_small |-> NoFont]
    /\ IdleExcept("render")

RenderKeep == KeepExcept("render")

\* compare_app.py:680-689
RenderFonts ==
    /\ render.pc = "fonts"
    /\ render' = [render EXCEPT
                    !.pc = "title",
                    !.f_title = _font(render.bld, render.dejavu, CMP_TITLE_SZ),
                    !.f_lbl = _font(render.reg, render.dejavu, CMP_LABEL_SZ),
                    !.f_val = _font(render.reg, render.dejavu, CMP_VAL_SZ)]
    /\ RenderKeep

\* compare_app.py:698
RenderTitle ==
    /\ render.pc = "title"
    /\ render' = [render EXCEPT
                    !.pc = "card_a",
                    !.f_title = shrink_to_fit(render.title, render.f_title,
                                    title_max_w, title_min_px,
                                    render.bld \/ render.dejavu)]
    /\ RenderKeep

RenderChips ==
    chip_widths_for("Key", render.val_a, render.val_b, render.f_val)

\* draw_company_card for one row (compare_app.py:738-739, 458-497): an
\* OSError of the label shrink loop is caught nowhere in render_compare
RenderCard(at, val_txt, then) ==
    /\ render.pc = at
    /\ LET lab == card_label(render.name, val_txt, RenderChips,
                             render.f_lbl, render.f_val)
       IN  render' = [render EXCEPT !.pc = IF lab.raised THEN "raised"
                                           ELSE then]
    /\ RenderKeep

RenderCardA == RenderCard("card_a", render.val_a, "card_b")

RenderCardB == RenderCard("card_b", render.val_b, "badge")

\* draw_winner_badge_below_cards (compare_app.py:755, 512-522)
RenderBadge ==
    /\ render.pc = "badge"
    /\ render' = [render EXCEPT !.pc = "bottom",
                                !.f_badge = badge_font(render.bld)]
    /\ RenderKeep

\* Pills, analyst bar and footer, whose fonts are those of line 685-689
\* and _font again (compare_app.py:757-806, 609-612)
RenderBottom ==
    /\ render.pc = "bottom"
    /\ render' = [render EXCEPT
                    !.pc = "done",
                    !.f_small = _font(render.reg, render.dejavu,
                                      Max(12, (((CMP_LABEL_SZ * 84) \div 100)
                                               * 90) \div 100))]
    /\ RenderKeep

NextRender ==
    \/ RenderFonts \/ RenderTitle \/ RenderCardA \/ RenderCardB
    \/ RenderBadge \/ RenderBottom

SpecRender == InitRender /\ [][NextRender]_vars

-----------------------------------------------------------------------------
(* compare_app.py: the /generate request *)

MaxRows == 2   \* rows of the CSV table

\* str.upper() for the letters used
Upper(t) ==
    [i \in 1..Len(t) |-> CASE t[i] = "a" -> "A" [] t[i] = "b" -> "B"
                           [] t[i] = "c" -> "C" [] t[i] = "d" -> "D"
                           [] OTHER -> t[i]]

\* (request.args.get(name) or '').upper().strip(); an absent parameter
\* is << >> (compare_app.py:872-873)
ticker_arg(raw) == Strip(Upper(raw))

\* Values of a query parameter: absent, blank, a symbol of the table in
\* lower case, with a blank behind it, another symbol, an unknown one
TickerArgs ==
    {<< >>, <<" ">>, <<"a", "b">>, <<"A", "B", " ">>, <<"C", "D">>,
     <<"Z", "Z">>}

\* Symbol cells of the CSV
SymbolCells == {<<"A", "B">>, <<"C", "D">>, <<"a", "b">>}

Tables == UNION {[1..n -> SymbolCells] : n \in 0..MaxRows}

\* df[df['Symbol'] == ticker]: the positions of the matching rows
rows_of(df, ticker) == {i \in 1..Len(df) : df[i] = ticker}

\* rows.iloc[0]; 0 stands for the IndexError of an empty selection
iloc0(found) ==
    IF found = {} THEN 0 ELSE CHOOSE i \in found : \A j \in found : i <= j

\* The check with "and" for "or"
not_found_when_both_missing(rows_a, rows_b) == rows_a = {} /\ rows_b = {}

\* "rows_a.empty or rows_b.empty" (compare_app.py:882)
not_found(rows_a, rows_b) == rows_a = {} \/ rows_b = {}

InitRequest ==
    /\ \E a \in TickerArgs, b \in TickerArgs, t \in Tables,
          readable \in BOOLEAN, fonts \in BOOLEAN :
         request = [pc |-> "args", arg_a |-> a, arg_b |-> b, csv |-> t,
                    readable |-> readable, fonts |-> fonts,
                    ticker_a |-> << >>, ticker_b |-> << >>,
                    df |-> << >>, row_a |-> 0, row_b |-> 0,
                    calls |-> << >>, files |-> 0, status |-> 0]
    /\ IdleExcept("request")

RequestKeep == KeepExcept("request")

Respond(code) == [request EXCEPT !.pc = "done", !.status = code]

\* The gate lets every request through (compare_app.py:814-815,
\* 869-871); the parameters are read and checked (872-877)
ReqArgs ==
    /\ request.pc = "args"
    /\ LET ta == ticker_arg(request.arg_a)
           tb == ticker_arg(request.arg_b)
       IN  request' =
             IF ta = << >> \/ tb = << >>
             THEN [Respond(400) EXCEPT !.ticker_a = ta, !.ticker_b = tb]
             ELSE [request EXCEPT !.pc = "load", !.ticker_a = ta,
                                  !.ticker_b = tb]
    /\ RequestKeep

\* df = load_df() (compare_app.py:879); a file that cannot be read
\* raises after the third try (160-170) and the request ends in the
\* server error of the framework
ReqLoad ==
    /\ request.pc = "load"
    /\ request' = IF request.readable
                  THEN [request EXCEPT !.pc = "lookup", !.df = request.csv]
                  ELSE Respond(500)
    /\ RequestKeep

\* compare_app.py:880-886
ReqLookup ==
    /\ request.pc = "lookup"
    /\ LET rows_a == rows_of(request.df, request.ticker_a)
           rows_b == rows_of(request.df, request.ticker_b)
       IN  request' =
             IF not_found(rows_a, rows_b) THEN Respond(404)
             ELSE [request EXCEPT !.pc = "render",
                                  !.row_a = iloc0(rows_a),
                                  !.row_b = iloc0(rows_b)]
    /\ RequestKeep

\* img = render_compare([row_a, row_b], metrics) (compare_app.py:888);
\* render_compare returns the image or raises
ReqRender ==
    /\ request.pc = "render"
    /\ LET called == [request EXCEPT
                        !.calls = Append(@, <<request.row_a, request.row_b>>)]
       IN  request' = IF request.fonts
                      THEN [called EXCEPT !.pc = "save"]
                      ELSE [called EXCEPT !.pc = "done", !.status = 500]
    /\ RequestKeep

\* img.save(out_path) and the page that shows it (compare_app.py:889-905)
ReqSave ==
    /\ request.pc = "save"
    /\ request' = [Respond(200) EXCEPT !.files = @ + 1]
    /\ RequestKeep

NextRequest == ReqArgs \/ ReqLoad \/ ReqLookup \/ ReqRender \/ ReqSave

SpecRequest == InitRequest /\ [][NextRequest]_vars

-----------------------------------------------------------------------------
(* load_df called from the request threads while the CSV is replaced *)

NThreads   == 2   \* requests served at the same time
MaxUpdates == 1   \* times the CSV is replaced during them

Threads == 1..NThreads

\* The k-th content of the file carries the k-th modification time; 0
\* stands for None.
NoThread == [pc |-> "call", cur_mtime |-> 0, df |-> 0, tries |-> 0, ret |-> 0]

\* The cache is empty, or holds the file as it is (compare_app.py:153-154)
InitLoadDf ==
    /\ \E warm \in BOOLEAN :
         dfCache = [pc |-> "serving",
                    file |-> [mtime |-> 1, content |-> 1],
                    _df |-> IF warm THEN 1 ELSE 0,
                    _df_mtime |-> IF warm THEN 1 ELSE 0,
                    th |-> [t \in Threads |-> NoThread]]
    /\ IdleExcept("dfCache")

LoadKeep == KeepExcept("dfCache")

ThreadAt(t, pc) == dfCache.pc = "serving" /\ dfCache.th[t].pc = pc

\* The update job writes a new CSV
FileUpdate ==
    /\ dfCache.pc = "serving"
    /\ dfCache.file.content <= MaxUpdates
    /\ dfCache' = [dfCache EXCEPT !.file = [mtime |-> @.mtime + 1,
                                            content |-> @.content + 1]]
    /\ LoadKeep

\* cur_mtime = os.path.getmtime(CSV_FILE) (compare_app.py:158)
GetMtime(t) ==
    /\ ThreadAt(t, "call")
    /\ dfCache' = [dfCache EXCEPT !.th[t].pc = "check",
                                  !.th[t].cur_mtime = dfCache.file.mtime]
    /\ LoadKeep

\* if _df is None or _df_mtime != cur_mtime (compare_app.py:159)
CheckCache(t) ==
    /\ ThreadAt(t, "check")
    /\ dfCache' = [dfCache EXCEPT !.th[t].pc =
                     IF dfCache._df = 0
                        \/ dfCache._df_mtime # dfCache.th[t].cur_mtime
                     THEN "read" ELSE "return"]
    /\ LoadKeep

\* df = pd.read_csv(CSV_FILE, ...) (compare_app.py:163)
ReadCsv(t) ==
    /\ ThreadAt(t, "read")
    /\ dfCache' = [dfCache EXCEPT !.th[t].pc = "store_df",
                                  !.th[t].df = dfCache.file.content]
    /\ LoadKeep

\* read_csv raises; after the third time load_df raises
\* (compare_app.py:161, 167-170)
ReadFails(t) ==
    /\ ThreadAt(t, "read")
    /\ dfCache' = [dfCache EXCEPT
                     !.th[t].tries = @ + 1,
                     !.th[t].pc = IF dfCache.th[t].tries + 1 = 3
                                  THEN "raised" ELSE "read"]
    /\ LoadKeep

\* _df = df (compare_app.py:164)
StoreDf(t) ==
    /\ ThreadAt(t, "store_df")
    /\ dfCache' = [dfCache EXCEPT !.th[t].pc = "store_mtime",
                                  !._df = dfCache.th[t].df]
    /\ LoadKeep

\* _df_mtime = cur_mtime (compare_app.py:165)
StoreMtime(t) ==
    /\ ThreadAt(t, "store_mtime")
    /\ dfCache' = [dfCache EXCEPT !.th[t].pc = "return",
                                  !._df_mtime = dfCache.th[t].cur_mtime]
    /\ LoadKeep

\* return _df (compare_app.py:166, 171): the global is read again
ReturnDf(t) ==
    /\ ThreadAt(t, "return")
    /\ dfCache' = [dfCache EXCEPT !.th[t].pc = "done",
                                  !.th[t].ret = dfCache._df]
    /\ LoadKeep

NextLoadDf ==
    \/ FileUpdate
    \/ \E t \in Threads :
         \/ GetMtime(t) \/ CheckCache(t) \/ ReadCsv(t) \/ ReadFails(t)
         \/ StoreDf(t) \/ StoreMtime(t) \/ ReturnDf(t)

SpecLoadDf == InitLoadDf /\ [][NextLoadDf]_vars

-----------------------------------------------------------------------------
(* update_csv.py: get_info_with_retry *)

MaxTries == 4   \* largest MAX_TRIES of the environment

\* BACKOFF_START in tenths of a second: the defaults of the two scripts
\* (update_csv.py:51, update_csv_local.py:46)
BaseSleeps == {5, 8}

\* Linear for exponential
backoff_linear(base_sleep, attempt) == base_sleep * attempt

\* base_sleep * (2 ** (attempt - 1)) (update_csv.py:158)
backoff(base_sleep, attempt) == base_sleep * 2^(attempt - 1)

\* outcome[k] says whether the k-th yf.Ticker(ticker).info returns; the
\* error of the k-th attempt is named k, and 0 is None
InitRetry ==
    /\ \E max_tries \in 0..MaxTries, base_sleep \in BaseSleeps :
         \E outcome \in [1..max_tries -> BOOLEAN] :
           retry = [pc |-> "for", max_tries |-> max_tries,
                    base_sleep |-> base_sleep, outcome |-> outcome,
                    attempt |-> 0, last_err |-> 0,
                    fetched |-> << >>, slept |-> << >>,
                    result |-> 0, raised |-> 0]
    /\ IdleExcept("retry")

RetryKeep == KeepExcept("retry")

\* for attempt in range(1, max_tries + 1) (update_csv.py:152)
RetryFor ==
    /\ retry.pc = "for"
    /\ retry' = IF retry.attempt < retry.max_tries
                THEN [retry EXCEPT !.pc = "try", !.attempt = @ + 1]
                ELSE [retry EXCEPT !.pc = "raise"]
    /\ RetryKeep

\* The jitter sleep and the fetch (update_csv.py:153-157)
RetryTry ==
    /\ retry.pc = "try"
    /\ LET made == [retry EXCEPT !.fetched = Append(@, retry.attempt)]
       IN  retry' = IF retry.outcome[retry.attempt]
                    THEN [made EXCEPT !.pc = "returned",
                                      !.result = retry.attempt]
                    ELSE [made EXCEPT !.pc = "except",
                                      !.last_err = retry.attempt]
    /\ RetryKeep

\* time.sleep(base_sleep * (2 ** (attempt - 1))) (update_csv.py:158)
RetryBackoff ==
    /\ retry.pc = "except"
    /\ retry' = [retry EXCEPT
                   !.pc = "for",
                   !.slept = Append(@, backoff(retry.base_sleep,
                                               retry.attempt))]
    /\ RetryKeep

\* raise last_err (update_csv.py:159)
RetryRaise ==
    /\ retry.pc = "raise"
    /\ retry' = [retry EXCEPT !.pc = "raised", !.raised = retry.last_err]
    /\ RetryKeep

NextRetry == RetryFor \/ RetryTry \/ RetryBackoff \/ RetryRaise

SpecRetry == InitRetry /\ [][NextRetry]_vars

-----------------------------------------------------------------------------
(* update_csv.py: the batches of main *)

MaxTickers   == 3   \* tickers of a run
MaxBatchSize == 2   \* largest BATCH_SIZE

\* MAX_TRIES of a QUICK run (update_csv.py:60-61)
QUICK_MAX_TRIES == 2

\* update_csv.py:52-53
THREADS_BASE == 4
THREADS_MIN  == 2

\* Seconds are counted in 1024ths, so that the factor 1.5 stays exact
\* over the batches of a run; the jitter is counted in ten-thousandths
\* and its factor 1.2 cut off below that
SleepUnit == 1024

\* SLEEP_GROUP_MAX (update_csv.py:77)
SLEEP_GROUP_MAX == 30 * SleepUnit

\* JITTER_MAX_CAP (update_csv.py:78)
JITTER_MAX_CAP == 12000

\* "fail_rate >= 0.25" for fail_rate = group_fail / max(1, len(group))
\* (update_csv.py:330-331)
high_fail_rate(group_fail, len) == group_fail * 4 >= Max(1, len)

\* The worker count lowered even at the minimum
threads_after_below_min(tc, group_fail, len, base, lo) ==
    IF high_fail_rate(group_fail, len) THEN tc - 1
    ELSE IF group_fail = 0 /\ tc < base THEN Min(base, tc + 1)
    ELSE tc

\* threads_current after a batch (update_csv.py:336-341)
threads_after(tc, group_fail, len, base, lo) ==
    IF high_fail_rate(group_fail, len)
    THEN (IF tc > lo THEN Max(lo, tc - 1) ELSE tc)
    ELSE IF group_fail = 0 /\ tc < base THEN Min(base, tc + 1)
    ELSE tc

\* sleep_group after a batch (update_csv.py:333)
sleep_after(sleep_group, group_fail, len) ==
    IF high_fail_rate(group_fail, len)
    THEN Min(SLEEP_GROUP_MAX, (sleep_group * 3) \div 2)
    ELSE sleep_group

\* One end of the jitter after a batch (update_csv.py:334-335)
jitter_after(j, group_fail, len) ==
    IF high_fail_rate(group_fail, len)
    THEN Min(JITTER_MAX_CAP, (j * 12) \div 10)
    ELSE j

\* The pool closed as soon as one future is done
futures_done_first(group, results) == results # << >>

\* The with block is left when every future of the group is done
\* (update_csv.py:276-279): as_completed has yielded each of them and
\* the exit of the block waits for the workers
futures_done(group, results) ==
    \A t \in group : \E k \in 1..Len(results) : results[k].t = t

\* The test with nothing counted as failed
result_failed_never(info, err) == FALSE

\* "err is not None or info is None" (update_csv.py:285); 0 is None
result_failed(info, err) == err # 0 \/ info = 0

\* One slice of chunkify (update_csv.py:110-112): the tickers
\* i+1 .. i+step of 1..n
chunk(i, step, n) == (i + 1)..Min(i + step, n)

\* The tickers are the distinct entries 1..n of the table
\* (update_csv.py:253-261); fetch_one ends with (t, info, None) or with
\* (t, None, e) (263-268)
InitUpdate ==
    /\ \E n \in 1..MaxTickers, step \in 1..MaxBatchSize :
         update = [pc |-> "for", n |-> n, BATCH_SIZE |-> step,
                   i |-> 0, group |-> {}, running |-> {},
                   tries |-> [t \in 1..n |-> 0],
                   submitted |-> [t \in 1..n |-> 0],
                   fetched |-> [t \in 1..n |-> "no"],
                   results |-> << >>, ri |-> 0, group_fail |-> 0,
                   failed |-> << >>, applied |-> << >>, batches |-> 0,
                   threads_current |-> Max(THREADS_MIN, THREADS_BASE),
                   sleep_group |-> 6 * SleepUnit, jitter |-> <<3000, 6000>>,
                   slept |-> 0]
    /\ IdleExcept("update")

UpdateKeep == KeepExcept("update")

Finished(t) == \E k \in 1..Len(update.results) : update.results[k].t = t

\* The next group is submitted to a new pool, or the loop is over
\* (update_csv.py:273-277)
UpdNextBatch ==
    /\ update.pc = "for"
    /\ update' =
         IF update.i < update.n
         THEN LET g == chunk(update.i, update.BATCH_SIZE, update.n)
              IN  [update EXCEPT
                     !.pc = "pool", !.group = g, !.running = {},
                     !.results = << >>,
                     !.submitted = [t \in 1..update.n |->
                                      IF t \in g THEN @[t] + 1 ELSE @[t]]]
         ELSE [update EXCEPT !.pc = "finish"]
    /\ UpdateKeep

\* A free worker of the pool takes a submitted ticker
UpdStart(t) ==
    /\ update.pc = "pool"
    /\ t \in update.group /\ t \notin update.running /\ ~Finished(t)
    /\ Cardinality(update.running) < update.threads_current
    /\ update' = [update EXCEPT !.running = @ \cup {t}]
    /\ UpdateKeep

\* One attempt of get_info_with_retry for t (update_csv.py:152-158):
\* it returns, or fails and is repeated, or fails for the last time;
\* fetch_one turns that into its result (263-268), which as_completed
\* hands over in the order of completion (278-279)
UpdAttempt(t, ok) ==
    /\ update.pc = "pool"
    /\ t \in update.running
    /\ LET k   == update.tries[t] + 1
           res == IF ok THEN [t |-> t, info |-> 1, err |-> 0]
                  ELSE [t |-> t, info |-> 0, err |-> k]
       IN  update' =
             IF ok \/ k = QUICK_MAX_TRIES
             THEN [update EXCEPT !.tries[t] = k,
                                 !.fetched[t] = IF ok THEN "info" ELSE "error",
                                 !.running = @ \ {t},
                                 !.results = Append(@, res)]
             ELSE [update EXCEPT !.tries[t] = k]
    /\ UpdateKeep

\* All futures are done and the pool is closed (update_csv.py:276-282)
UpdCollected ==
    /\ update.pc = "pool"
    /\ futures_done(update.group, update.results)
    /\ update' = [update EXCEPT !.pc = "apply", !.ri = 1, !.group_fail = 0]
    /\ UpdateKeep

\* One result is written to the table or put on the failed list
\* (update_csv.py:283-327); the partial save is guarded by its own try
UpdApply ==
    /\ update.pc = "apply"
    /\ update.ri <= Len(update.results)
    /\ LET r == update.results[update.ri]
       IN  update' =
             IF result_failed(r.info, r.err)
             THEN [update EXCEPT !.ri = @ + 1, !.group_fail = @ + 1,
                                 !.failed = Append(@, r.t)]
             ELSE [update EXCEPT !.ri = @ + 1,
                                 !.applied = Append(@, r.t)]
    /\ UpdateKeep

\* The pool, the jitter and the cooldown are adapted to the failure
\* rate of the group (update_csv.py:329-341)
UpdAdapt ==
    /\ update.pc = "apply"
    /\ update.ri > Len(update.results)
    /\ LET len == Cardinality(update.group)
           gf  == update.group_fail
       IN  update' =
             [update EXCEPT
                !.pc = "sleep",
                !.threads_current =
                   threads_after(@, gf, len, THREADS_BASE, THREADS_MIN),
                !.sleep_group = sleep_after(@, gf, len),
                !.jitter = <<jitter_after(@[1], gf, len),
                             jitter_after(@[2], gf, len)>>]
    /\ UpdateKeep

\* "time.sleep(sleep_group)" is over and the loop goes on
\* (update_csv.py:343, 273)
UpdSleep ==
    /\ update.pc = "sleep"
    /\ update' = [update EXCEPT !.pc = "for",
                                !.i = @ + update.BATCH_SIZE,
                                !.batches = @ + 1,
                                !.slept = @ + 1]
    /\ UpdateKeep

\* The failed list is written and the CSV saved or left as it is
\* (update_csv.py:345-366)
UpdFinish ==
    /\ update.pc = "finish"
    /\ update' = [update EXCEPT !.pc = "end"]
    /\ UpdateKeep

NextUpdate ==
    \/ UpdNextBatch \/ UpdCollected \/ UpdApply \/ UpdAdapt \/ UpdSleep
    \/ UpdFinish
    \/ \E t \in 1..MaxTickers :
         \/ UpdStart(t)
         \/ \E ok \in BOOLEAN : UpdAttempt(t, ok)

SpecUpdate == InitUpdate /\ [][NextUpdate]_vars

\* The main thread runs on, the workers of the pool get the processor,
\* and every fetch attempt returns or raises
FairSpecUpdate == SpecUpdate /\ WF_vars(NextUpdate)

-----------------------------------------------------------------------------
(* update_csv.py: the settings main adapts after every batch *)

MaxThreads  == 4   \* largest THREADS, THREADS_MIN, THREADS_MAX
MaxBatches  == 4   \* batches of a run
MaxGroupLen == 5   \* tickers of the largest batch

\* SLEEP_GROUP of the environment: the default and two longer ones
SleepGroups == {6 * SleepUnit, 20 * SleepUnit, 30 * SleepUnit}

\* update_csv.py:257-261
InitAdapt ==
    /\ \E base \in 1..MaxThreads, lo \in 1..MaxThreads, hi \in 1..MaxThreads,
          sl \in SleepGroups :
         /\ lo <= hi
         /\ adapt = [pc |-> "batch", THREADS_BASE |-> base,
                     THREADS_MIN |-> lo, THREADS_MAX |-> hi,
                     threads_current |-> Max(lo, Min(base, hi)),
                     sleep_group |-> sl, jitter |-> <<3000, 6000>>,
                     batches |-> 0, group_fail |-> 0, len |-> 0]
    /\ IdleExcept("adapt")

\* A batch ends with group_fail of its len tickers failed, and the
\* settings are adapted (update_csv.py:329-343)
AdaptAfterBatch ==
    /\ adapt.pc = "batch"
    /\ adapt.batches < MaxBatches
    /\ \E len \in {1, MaxGroupLen - 1, MaxGroupLen} :
         \E group_fail \in 0..Min(2, len) :
           adapt' = [adapt EXCEPT
                       !.batches = @ + 1,
                       !.group_fail = group_fail,
                       !.len = len,
                       !.threads_current =
                           threads_after(@, group_fail, len,
                                         adapt.THREADS_BASE,
                                         adapt.THREADS_MIN),
                       !.sleep_group = sleep_after(@, group_fail, len),
                       !.jitter = <<jitter_after(@[1], group_fail, len),
                                    jitter_after(@[2], group_fail, len)>>]
    /\ KeepExcept("adapt")

\* The loop over the groups is over (update_csv.py:273, 345)
AdaptEnd ==
    /\ adapt.pc = "batch"
    /\ adapt.batches >= 1
    /\ adapt' = [adapt EXCEPT !.pc = "end"]
    /\ KeepExcept("adapt")

NextAdapt == AdaptAfterBatch \/ AdaptEnd

SpecAdapt == InitAdapt /\ [][NextAdapt]_vars

-----------------------------------------------------------------------------
(* app.py: cleanup_generated and the requests that write images *)

NClients    == 2   \* /generate_image requests served at the same time
MaxOldFiles == 1   \* files in the output directory before them
MaxAgeTicks == 1   \* max_age_hours, in ticks of the clock

\* The requests that run together, from the first call to the last image
\* fetched, last no longer than max_age_hours
MaxTicks == MaxAgeTicks

Clients == 1..NClients

\* The test with ">=" for ">"
too_old_or_equal(now, mtime, max_age) == now - mtime >= max_age

\* "now - os.path.getmtime(p) > max_age_hours * 3600" (app.py:298)
too_old(now, mtime, max_age) == now - mtime > max_age

\* The clock starts late enough for files older than the limit, at the
\* limit and younger; file names are numbers, 0 is no file
StartClock == MaxAgeTicks + 1

\* The image of client c: "{symb}_{ts}.png" is a new name (app.py:648-650)
ImageOf(c) == MaxOldFiles + c

NoClient ==
    [pc |-> "call", now |-> 0, todo |-> {}, removed |-> {}, after |-> -1,
     served |-> "no"]

\* The directory holds files of any age; no request has begun
InitCleanup ==
    /\ \E n \in 0..MaxOldFiles :
         \E mt \in [1..n -> 0..StartClock] :
           cleanup = [pc |-> "serving", clock |-> StartClock,
                      files |-> {<<k, mt[k]>> : k \in 1..n},
                      last_done |-> -1,
                      cl |-> [c \in Clients |-> NoClient]]
    /\ IdleExcept("cleanup")

CleanupKeep == KeepExcept("cleanup")

ClientAt(c, pc) == cleanup.pc = "serving" /\ cleanup.cl[c].pc = pc

Present(fn) == \E e \in cleanup.files : e[1] = fn

MtimeOf(fn) == (CHOOSE e \in cleanup.files : e[1] = fn)[2]

\* Time passes
Tick ==
    /\ cleanup.pc = "serving"
    /\ cleanup.clock < StartClock + MaxTicks
    /\ cleanup' = [cleanup EXCEPT !.clock = @ + 1]
    /\ CleanupKeep

\* generate_image calls cleanup_generated: now = time.time() and
\* os.listdir(OUT_DIR) (app.py:377, 294-295)
CleanStart(c) ==
    /\ ClientAt(c, "call")
    /\ cleanup' = [cleanup EXCEPT
                     !.cl[c].pc = "loop",
                     !.cl[c].now = cleanup.clock,
                     !.cl[c].after = cleanup.last_done,
                     !.cl[c].todo = {e[1] : e \in cleanup.files}]
    /\ CleanupKeep

\* The next listed file is tested and removed (app.py:296-301); a file
\* that is gone fails isfile. The listing is taken in the order of the
\* names: the test of a file does not depend on the files before it
CleanFile(c, fn) ==
    /\ ClientAt(c, "loop")
    /\ fn \in cleanup.cl[c].todo
    /\ \A other \in cleanup.cl[c].todo : fn <= other
    /\ cleanup' =
         IF Present(fn) /\ too_old(cleanup.cl[c].now, MtimeOf(fn), MaxAgeTicks)
         THEN [cleanup EXCEPT !.files = {e \in @ : e[1] # fn},
                              !.cl[c].removed = @ \cup {fn},
                              !.cl[c].todo = @ \ {fn}]
         ELSE [cleanup EXCEPT !.cl[c].todo = @ \ {fn}]
    /\ CleanupKeep

\* The loop is over and cleanup_generated returns (app.py:295); its
\* locals are gone
CleanEnd(c) ==
    /\ ClientAt(c, "loop")
    /\ cleanup.cl[c].todo = {}
    /\ cleanup' = [cleanup EXCEPT
                     !.cl[c] = [NoClient EXCEPT !.pc = "render"],
                     !.last_done = Max(@, cleanup.cl[c].now)]
    /\ CleanupKeep

\* The request goes back to the home page (app.py:379-398), or the
\* image is drawn and saved under its new name and the client is sent to
\* the result page (app.py:648-657)
RenderSave(c, valid) ==
    /\ ClientAt(c, "render")
    /\ cleanup' =
         IF valid
         THEN [cleanup EXCEPT
                 !.cl[c].pc = "fetch",
                 !.files = @ \cup {<<ImageOf(c), cleanup.clock>>}]
         ELSE [cleanup EXCEPT !.cl[c].pc = "done"]
    /\ CleanupKeep

\* The page fetches the image (app.py:659-665)
ServeImage(c) ==
    /\ ClientAt(c, "fetch")
    /\ cleanup' = [cleanup EXCEPT
                     !.cl[c].pc = "done",
                     !.cl[c].served = IF Present(ImageOf(c)) THEN "image"
                                      ELSE "not found"]
    /\ CleanupKeep

NextCleanup ==
    \/ Tick
    \/ \E c \in Clients :
         \/ CleanStart(c) \/ CleanEnd(c)
         \/ \E fn \in 1..(MaxOldFiles + NClients) : CleanFile(c, fn)
         \/ \E valid \in BOOLEAN : RenderSave(c, valid)
         \/ ServeImage(c)

SpecCleanup == InitCleanup /\ [][NextCleanup]_vars

-----------------------------------------------------------------------------
(* update_csv.py, update_csv_local.py: what main writes to disk *)

MaxSaveTickers   == 4   \* tickers of a run
MaxRowsPerTicker == 2   \* rows of the table with the same ticker

\* MIN_UPDATED_QUOTE of the environment in percent: none asked for, the
\* defaults of the two scripts, every ticker (update_csv.py:59,
\* update_csv_local.py:52)
Quotes == {0, 75, 80, 100}

\* PARTIAL_SAVE_EVERY: switched off, or every second processed ticker
PartialEvery == {0, 2}

\* The test that never holds the file back
below_quote_never(updated_rows_count, ticker_total, quote) == FALSE

\* "updated_ratio < MIN_UPDATED_QUOTE" for updated_ratio =
\* updated_rows_count / max(1, ticker_total) (update_csv.py:351-352)
below_quote(updated_rows_count, ticker_total, quote) ==
    updated_rows_count * 100 < quote * Max(1, ticker_total)

\* update_csv.py:58-59, 255-258, 271: QUICK sets the threshold to 0;
\* stock_data.csv is as the last run left it, no partial file written
InitSave ==
    /\ \E quick \in BOOLEAN, quote \in Quotes, every \in PartialEvery,
          n \in 1..MaxSaveTickers :
         save = [pc |-> "results", QUICK |-> quick,
                 MIN_UPDATED_QUOTE |-> IF quick THEN 0 ELSE quote,
                 PARTIAL_SAVE_EVERY |-> every, ticker_total |-> n,
                 processed |-> 0, updated_rows_count |-> 0,
                 processed_since_partial |-> 0,
                 output |-> "old", partial |-> "none", written |-> "none"]
    /\ IdleExcept("save")

SaveKeep == KeepExcept("save")

\* One result of a batch (update_csv.py:283-328): a failed ticker is
\* skipped; else the rows of the ticker are counted when one of them
\* changed, and after PARTIAL_SAVE_EVERY processed tickers the table goes
\* to the .partial.csv file, which can fail
SaveResult(outcome, nrows, write_ok) ==
    /\ save.pc = "results"
    /\ save.processed < save.ticker_total
    /\ LET k     == save.processed_since_partial + 1
           saves == save.PARTIAL_SAVE_EVERY # 0
                      /\ k >= save.PARTIAL_SAVE_EVERY
       IN  /\ saves \/ write_ok
           /\ outcome = "changed" \/ nrows = 1
           /\ save' =
                IF outcome = "failed"
                THEN [save EXCEPT !.processed = @ + 1, !.written = "none"]
                ELSE [save EXCEPT
                        !.processed = @ + 1,
                        !.updated_rows_count =
                           IF outcome = "changed" THEN @ + nrows ELSE @,
                        !.processed_since_partial = IF saves THEN 0 ELSE k,
                        !.partial = IF ~saves THEN @
                                    ELSE IF write_ok THEN "written"
                                    ELSE "cut",
                        !.written = IF saves THEN "partial" ELSE "none"]
    /\ SaveKeep

\* All batches are done (update_csv.py:273, 345-346)
SaveLoopEnd ==
    /\ save.pc = "results"
    /\ save.processed = save.ticker_total
    /\ save' = [save EXCEPT !.pc = "finish", !.written = "none"]
    /\ SaveKeep

\* The end of main (update_csv.py:350-366): below the threshold and not
\* QUICK the run returns; else the table is written over stock_data.csv,
\* and a failing write leaves the old file or a cut one
SaveFinish(result) ==
    /\ save.pc = "finish"
    /\ save' =
         IF below_quote(save.updated_rows_count, save.ticker_total,
                        save.MIN_UPDATED_QUOTE) /\ ~save.QUICK
         THEN [save EXCEPT !.pc = "end"]
         ELSE [save EXCEPT !.pc = "end", !.output = result,
                           !.written = "output"]
    /\ SaveKeep

NextSave ==
    \/ SaveLoopEnd
    \/ \E outcome \in {"failed", "same", "changed"},
          nrows \in 1..MaxRowsPerTicker, write_ok \in BOOLEAN :
         SaveResult(outcome, nrows, write_ok)
    \/ \E result \in {"new", "old", "cut"} : SaveFinish(result)

SpecSave == InitSave /\ [][NextSave]_vars

-----------------------------------------------------------------------------
(* Properties of the font loops *)

InFitLoop == fpc \in {"fit_loop", "fit_done"}

\* The sizes the fit loop of generate_image starts with (app.py:533-534).
FitStartSize == app_font(LABEL_SZ, fontOk).size

\* C3: when the fit loop of generate_image has exited, either both
\* constraints hold (the widest value fits the value column and the rows fit
\* the vertical space) or neither font can be shrunk any more (label and
\* value font are both at the MIN_FONT floor, or below it when they started
\* below it).
C3_FitExitSound ==
    fpc = "fit_done" =>
        \/ /\ fits_height(f_lbl_cur, fitIn, fontOk)
           /\ fits_width(f_lbl_cur, f_val_cur, fitIn)
        \/ /\ f_lbl_cur.size <= MIN_FONT
           /\ f_val_cur.size <= MIN_FONT

\* The loop gave up at the floor with the width constraint still violated.
C3_Witness ==
    /\ fpc = "fit_done"
    /\ f_lbl_cur = [size |-> MIN_FONT, kind |-> "ttf"]
    /\ f_val_cur = [size |-> MIN_FONT, kind |-> "ttf"]
    /\ ~fits_width(f_lbl_cur, f_val_cur, fitIn)
    /\ fits_height(f_lbl_cur, fitIn, fontOk)

\* The sizes the fit loop starts with allow at most this many iterations
\* that do not exit.
C4_BoundAsStated ==
    InFitLoop => passes <= (FitStartSize - MIN_FONT) + (FitStartSize - MIN_FONT)

FitBoundAmended ==
    passes <= Max(0, FitStartSize - MIN_FONT) + Max(0, FitStartSize - MIN_FONT)

\* A pass through the fit loop that exits changes no font; a pass that does
\* not exit strictly decreases label size + value size, increases neither,
\* and stays within the bound on such passes.
FitStepDecreases ==
    fpc = "fit_loop" =>
        /\ fpc' \in {"fit_loop", "fit_done"}
        /\ \/ /\ fpc' = "fit_done"
              /\ UNCHANGED <<f_lbl_cur, f_val_cur, passes>>
           \/ /\ fpc' = "fit_loop"
              /\ passes' = passes + 1
              /\ f_lbl_cur'.size <= f_lbl_cur.size
              /\ f_val_cur'.size <= f_val_cur.size
              /\ f_lbl_cur'.size + f_val_cur'.size
                   < f_lbl_cur.size + f_val_cur.size
              /\ FitBoundAmended'

\* C4 (amended): the fit loop of generate_image terminates: every iteration
\* that does not exit strictly decreases label size + value size, neither
\* size ever increases, and at most max(0, initial label size - floor) +
\* max(0, initial value size - floor) iterations do not exit; the iteration
\* after them exits.  The loop body is total (FitIteration is enabled in
\* every state of the loop), so the bound on the passes that do not exit is
\* the termination argument.
C4_FitTerminates == [][FitStepDecreases]_vars

\* The loop ran its full 17 + 17 iterations and exited on the next pass.
C4_Witness ==
    /\ fpc = "fit_done"
    /\ fontOk
    /\ passes = 2 * (LABEL_SZ - MIN_FONT)

\* C5: in every state of a shrink loop that started at or above its floor
\* the font size is at least the floor: MIN_FONT for the label and value
\* fonts of the generate_image fit loop, min_px for shrink_to_fit, and
\* max(14, int(0.82 * start size)) for shrink_label_to_fit_for_key.
C5_SizeAtLeastFloor ==
    /\ (InFitLoop /\ FitStartSize >= MIN_FONT) =>
          /\ f_lbl_cur.size >= MIN_FONT
          /\ f_val_cur.size >= MIN_FONT
    /\ (fpc \in {"stf_loop", "stf_done"} /\ CMP_TITLE_SZ >= min_px) =>
          /\ size >= min_px
          /\ f.size >= min_px
    /\ fpc \in {"lbl_loop", "lbl_raised"} =>
          size >= Max(14, (CMP_LABEL_SZ * 82) \div 100)
    /\ fpc \in {"lbl_enter", "lbl_loop", "lbl_raised", "lbl_done"} =>
          f.size >= Max(14, (CMP_LABEL_SZ * 82) \div 100)

\* shrink_label_to_fit_for_key stopped at its floor with the label still too
\* wide for the box.
C5_Witness ==
    /\ fpc = "lbl_done"
    /\ f.size = Max(14, (CMP_LABEL_SZ * 82) \div 100)
    /\ f.size < CMP_LABEL_SZ
    /\ ~FitsWidth(shIn.text, f, shIn.max_w)

-----------------------------------------------------------------------------
(* Properties of the metric rows of draw_company_card *)

CardEnts == {"A", "B"}

\* The row of card e has been laid out and drawn
RowDrawn(e) ==
    /\ \/ cpc \in {"cardB", "cards_done"} /\ e = "A"
       \/ cpc = "cards_done" /\ e = "B"
    /\ rows[e].drawn

\* Width in whole pixels of what the row shows on its right: the chip,
\* or the dash of an absent value
RightWidth(r) ==
    IF r.has_val THEN r.chip_w ELSE IntLen(<<EN_DASH>>, r.f_val)

\* C1: in every row draw_company_card has drawn, the label as drawn is no
\* wider than its label box, the value as drawn is no wider than the
\* inside of its chip (the chip less its 20 pixels of padding), a dash is
\* no wider than the room kept for it, and label, gap of 16 and chip (or
\* dash) together are no wider than the content width of the card.
C1_RowFitsBoxes ==
    \A e \in CardEnts :
        RowDrawn(e) =>
            LET r == rows[e]
            IN  /\ FitsWidth(r.label_fit, r.f_lbl_fit, r.max_label_w)
                /\ r.has_val => FitsWidth(r.val_txt, r.f_val, r.chip_w - 20)
                /\ ~r.has_val =>
                       FitsWidth(r.val_txt, r.f_val, (r.f_val.size * 25) \div 10)
                /\ textlength(r.label_fit, r.f_lbl_fit)
                     + 100 * (16 + RightWidth(r)) <= 100 * content_w

\* Both cards drawn, the value cut down to fit its chip and the label
\* replaced to fit its box
C1_Witness ==
    /\ cpc = "cards_done"
    /\ cardIn.ok
    /\ rows["A"].has_val
    /\ rows["A"].val_txt # cardIn.A
    /\ rows["A"].label_fit # LabelOf(cardIn.key)
    /\ rows["A"].f_lbl_fit.size < CMP_LABEL_SZ

\* The chip width both cards are expected to use for the key: the wider
\* of the two values plus padding, under the two clamps
SharedChipWidth ==
    LET fv == CardFont(CMP_VAL_SZ)
        c  == Min(Max(IntLen(cardIn.A, fv), IntLen(cardIn.B, fv)) + 24,
                  max_chip_w)
    IN  IF content_w - c - 16 < min_label_w
        THEN Max((content_w * 30) \div 100, content_w - 16 - min_label_w)
        ELSE c

\* C2: when both cards show a value for the key, the chip on card A and
\* the chip on card B have the same width, which is the width of the
\* wider value plus padding under the maximum-chip and minimum-label
\* clamps.
C2_ChipsEqual ==
    (cpc = "cards_done" /\ rows["A"].has_val /\ rows["B"].has_val) =>
        /\ rows["A"].chip_w = rows["B"].chip_w
        /\ rows["A"].chip_w = SharedChipWidth

\* Two values of different widths, neither reaching the maximum chip
C2_Witness ==
    /\ cpc = "cards_done"
    /\ rows["A"].has_val /\ rows["B"].has_val
    /\ IntLen(cardIn.A, CardFont(CMP_VAL_SZ)) < IntLen(cardIn.B, CardFont(CMP_VAL_SZ))
    /\ rows["B"].chip_w < max_chip_w
    /\ cardIn.ok

-----------------------------------------------------------------------------
(* Properties of the scorer *)

\* The metric the tally is about to score, and the two values the
\* scorer reads for it
TallyKey == scIn.metrics[ti]
TallyA   == numeric_value(TallyKey, scIn.A)
TallyB   == numeric_value(TallyKey, scIn.B)
Tallying == spc = "tally" /\ ti <= Len(_cmp)

\* a is the better value under the direction of the metric
Better(key, a, b) == IF key \in BETTER_LOW THEN a < b ELSE a > b

\* C6: when the tally scores a metric for which both entities have a
\* numeric value, the entity with the better value (the smaller one for
\* a lower-is-better metric, the larger one otherwise) gains exactly one
\* point and the other gains nothing, and on equal values each gains
\* half a point.
C6_TallyStep ==
    (Tallying /\ TallyA.ok /\ TallyB.ok) =>
        /\ Better(TallyKey, TallyA.v, TallyB.v) =>
               left_pts' = left_pts + 2 /\ right_pts' = right_pts
        /\ Better(TallyKey, TallyB.v, TallyA.v) =>
               right_pts' = right_pts + 2 /\ left_pts' = left_pts
        /\ TallyA.v = TallyB.v =>
               left_pts' = left_pts + 1 /\ right_pts' = right_pts + 1

C6_ScorerAwards == [][C6_TallyStep]_vars

\* KGV 10 for A against 15 for B has given A 1.0 and B 0.0
C6_Witness ==
    /\ spc = "score_done"
    /\ scIn.metrics = <<"KGV">>
    /\ scIn.A["KGV"] = NumCell(10) /\ scIn.B["KGV"] = StrCell(15)
    /\ left_pts = 2 /\ right_pts = 0

\* C7: when the tally comes to a metric for which at least one entity
\* has no numeric value, neither point total changes.
C7_AbsentStep ==
    (Tallying /\ (~TallyA.ok \/ ~TallyB.ok)) =>
        left_pts' = left_pts /\ right_pts' = right_pts

C7_AbsentSkipped == [][C7_AbsentStep]_vars

\* C8: the badge names A exactly when A's total is the greater, B
\* exactly when B's total is the greater, is the draw badge exactly when
\* the totals are equal, and the two numbers it shows are the two point
\* totals (the winner's first).
C8_BadgeShowsTotals ==
    spc = "score_done" =>
        /\ badge.kind = "A" <=> left_pts > right_pts
        /\ badge.kind = "B" <=> right_pts > left_pts
        /\ badge.kind = "draw" <=> left_pts = right_pts
        /\ IF badge.kind = "B"
           THEN 2 * badge.first = right_pts /\ 2 * badge.second = left_pts
           ELSE 2 * badge.first = left_pts /\ 2 * badge.second = right_pts

-----------------------------------------------------------------------------
(* Properties of select_metrics *)

ValueInA(k) == has_value(selIn.cols, selIn.A, k)
ValueInB(k) == has_value(selIn.cols, selIn.B, k)
InBothRows(k)  == ValueInA(k) /\ ValueInB(k)
InOneRow(k)    == ValueInA(k) # ValueInB(k)

\* Place of a key in the candidate order: the requested list or the
\* sector defaults first, then the catalog keys not yet listed
CandPos(k) ==
    LET cand == candidates(selIn.req, selIn.sec)
    IN  CHOOSE i \in 1..Len(cand) :
            cand[i] = k /\ \A j \in 1..(i - 1) : cand[j] # k

\* C9: select_metrics returns at most 6 keys, no key twice; every key
\* with a value in both entities stands before every key with a value in
\* exactly one; and within each of the two groups the keys stand in
\* candidate order.
C9_SelectionOrdered ==
    selpc = "sel_done" =>
        /\ Len(sel) <= 6
        /\ \A i, j \in 1..Len(sel) :
             i < j =>
               /\ sel[i] # sel[j]
               /\ ~(InOneRow(sel[i]) /\ InBothRows(sel[j]))
               /\ (InBothRows(sel[i]) /\ InBothRows(sel[j])) =>
                      CandPos(sel[i]) < CandPos(sel[j])
               /\ (InOneRow(sel[i]) /\ InOneRow(sel[j])) =>
                      CandPos(sel[i]) < CandPos(sel[j])

\* Six keys returned, of both groups, with a key of the first group that
\* comes later in candidate order than a key of the second
C9_Witness ==
    /\ selpc = "sel_done"
    /\ Len(sel) = 6
    /\ \E i, j \in 1..Len(sel) :
         /\ i < j
         /\ InBothRows(sel[i]) /\ InOneRow(sel[j])
         /\ CandPos(sel[j]) < CandPos(sel[i])

\* The candidates that have a value in at least one of the two entities
Selectable ==
    {k \in SeqToSet(candidates(selIn.req, selIn.sec)) :
        ValueInA(k) \/ ValueInB(k)}

\* C10: when fewer than 3 candidates have a value in at least one
\* entity, select_metrics returns between 3 and 6 keys, taken from the
\* fallback catalog whether or not they have a value.
C10_FallbackReselect ==
    (selpc = "sel_done" /\ Cardinality(Selectable) < 3) =>
        /\ Len(sel) >= 3
        /\ Len(sel) <= 6
        /\ \A i \in 1..Len(sel) : sel[i] \in SeqToSet(fallback)

-----------------------------------------------------------------------------
(* Properties of the resolvers and formatters *)

Returned(fn) == pureCall.pc = "done" /\ pureCall.fn = fn

\* The first alias of the key, in listed order, that is a column
FirstAliasPresent(key, cols, c) ==
    LET alts == COLUMN_ALIASES(key)
    IN  \E i \in 1..Len(alts) :
           /\ alts[i] = c
           /\ c \in cols
           /\ \A j \in 1..(i - 1) : alts[j] \notin cols

AnyAliasPresent(key, cols) ==
    \E c \in SeqToSet(COLUMN_ALIASES(key)) : c \in cols

\* C11: resolve_col returns the key itself when it is a column; on a miss
\* the first of the key's aliases, in listed order, that is a column; and
\* None when neither the key nor an alias is a column.  _get_val returns
\* the cell of that column, and None when there is none.
C11_ResolveOrder ==
    Returned("_get_val") =>
        LET key == pureCall.key
            cols == pureCall.cols
            col == pureCall.col
        IN  /\ key \in cols => col = Col(key)
            /\ (key \notin cols /\ AnyAliasPresent(key, cols)) =>
                   col.found /\ FirstAliasPresent(key, cols, col.col)
            /\ (key \notin cols /\ ~AnyAliasPresent(key, cols)) => col = NoCol
            /\ pureCall.val = IF col.found THEN pureCall.row[col.col]
                              ELSE NoneCell

\* The key is no column, two of its aliases are, and the earlier one of
\* the list was returned with its cell
C11_Witness ==
    /\ Returned("_get_val")
    /\ pureCall.key = "Eigenkapitalrendite"
    /\ pureCall.cols = {"Symbol", "ROE", "returnOnEquity"}
    /\ pureCall.col = Col("ROE")
    /\ pureCall.val = pureCall.row["ROE"]

\* The number a display text shows, in thousandths: points between the
\* thousands dropped, the comma read as decimal point
ShownValue(t) == ParseFloat(CommaToPoint(Without(t, ".")))

\* y rounded to dec decimals, in thousandths
RoundTo(y, dec) ==
    LET unit == Pow10(3 - dec)
        q    == ((Abs(y) + unit \div 2) \div unit) * unit
    IN  IF y < 0 THEN -q ELSE q

\* The float the argument of the call stands for
ArgValue == FloatOf(pureCall.val, PercentClean).v

TextLit042 == <<"0", ".", "0", "4", "2">>

\* C12: for a value that parses as a number, fmt_percent_for shows the
\* number times 100 exactly when its magnitude is at most 1.5 and the
\* number itself otherwise, to one decimal, with a decimal comma, without
\* trailing zeros or a bare comma, followed by "%"; and "0.042", "42",
\* "4.2" give "4,2%", "42%", "4,2%".
C12_PercentHeuristic ==
    (Returned("fmt_percent_for") /\ FloatOf(pureCall.val, PercentClean).ok) =>
        LET out   == pureCall.out
            shown == SubSeq(out, 1, Len(out) - 1)
            x     == ArgValue
        IN  /\ out[Len(out)] = "%"
            /\ ShownValue(shown).ok
            /\ ShownValue(shown).v =
                 RoundTo(IF Abs(x) <= 1500 THEN 100 * x ELSE x, 1)
            /\ shown[Len(shown)] # ","
            /\ \A i \in 1..Len(shown) :
                 shown[i] = "," => shown[Len(shown)] # "0"
            /\ pureCall.val = RawCell(TextLit042) => out = <<"4", ",", "2", "%">>
            /\ pureCall.val = RawCell(<<"4", "2">>) => out = <<"4", "2", "%">>
            /\ pureCall.val = RawCell(<<"4", ".", "2">>) =>
                   out = <<"4", ",", "2", "%">>

\* "0.042" has been formatted and came out as "4,2%"
C12_Witness ==
    /\ Returned("fmt_percent_for")
    /\ pureCall.val = RawCell(TextLit042)
    /\ pureCall.out = <<"4", ",", "2", "%">>

\* The argument is a text no parser of the program reads as a number
ArgMalformed ==
    pureCall.val.kind = "raw" /\ pureCall.val.s \in MalformedTexts

\* The argument is absent: None, NaN, or a key without a column
ArgAbsent == isna(pureCall.val)

\* C14 as stated: display_value, fmt_number and fmt_percent_for give the
\* dash for an absent value and give back the raw text, unchanged, for a
\* text that cannot be parsed as a number.
C14_RawTextForAll ==
    (pureCall.pc = "done"
       /\ pureCall.fn \in {"display_value", "fmt_number", "fmt_percent_for"}) =>
        /\ ArgAbsent => pureCall.out = Dash
        /\ ArgMalformed => pureCall.out = pureCall.val.s

\* display_value reads the key through _to_float and gives the dash when
\* that fails
ParsedByToFloat ==
    pureCall.fn = "display_value" /\ pureCall.key \in RatioKeys \cup BillionKeys

\* C14, amended: the three functions return a text for every raw value;
\* an absent value gives the dash; a text that cannot be parsed as a
\* number is given back unchanged by fmt_number, by fmt_percent_for and
\* by display_value for percent keys and plain keys, while display_value
\* gives the dash for it for the ratio keys (KGV, Forward PE, KUV) and
\* the keys shown in billions.
C14_DashOrRawText ==
    (pureCall.pc = "done"
       /\ pureCall.fn \in {"display_value", "fmt_number", "fmt_percent_for"}) =>
        /\ pureCall.out # << >>
        /\ ArgAbsent => pureCall.out = Dash
        /\ (ArgMalformed /\ ~ParsedByToFloat) => pureCall.out = pureCall.val.s
        /\ (ArgMalformed /\ ParsedByToFloat) => pureCall.out = Dash

\* display_value has shown the dash for a KGV cell that holds "n/a", and
\* fmt_number leaves such a text as it is
C14_Witness ==
    /\ Returned("display_value")
    /\ pureCall.key = "KGV"
    /\ pureCall.val = RawCell(<<"n", "/", "a">>)
    /\ pureCall.out = Dash
    /\ fmt_number(pureCall.val, 2) = <<"n", "/", "a">>

\* C13: for every float and every kind of metric (plain number, percent,
\* ratio), formatting the value, parsing the display text back and
\* formatting again gives the display text of the first formatting.
C13_FormatIdempotent ==
    Returned("round_trip") => pureCall.second = pureCall.first

\* The parts of a display text with one decimal comma: what stands
\* before the comma, the decimals after it, and the unit behind them
CommaAt(t) == CHOOSE i \in 1..Len(t) : t[i] = ","
HasDecimals(t) ==
    \E i \in 1..(Len(t) - 1) : t[i] = "," /\ t[i + 1] \in Digits
BeforeComma(t) == SubSeq(t, 1, CommaAt(t) - 1)
Decimals(t) == SubSeq(t, CommaAt(t) + 1, RunEnd(t, CommaAt(t) + 1))
Unit(t) == SubSeq(t, RunEnd(t, CommaAt(t) + 1) + 1, Len(t))

Trimming == pureCall.fn = "trim_numeric_text_to_fit"

TooWide(t) == ~FitsWidth(t, pureCall.font, pureCall.max_width)

\* C15: trim_numeric_text_to_fit returns a text that fits unchanged;
\* each pass of its loop works on a text that is too wide and has
\* decimals, and takes away the last decimal, together with the comma
\* when it is the only one, leaving what stands before the comma and the
\* unit behind the decimals as they are, so the text gets shorter with
\* every pass; the loop stops at the first text that fits and returns
\* it; only a text that is too wide and has no decimals left is handed
\* to ellipsize_to_fit.
C15_Step ==
    Trimming =>
        /\ (pureCall.pc = "trim_fits") =>
               pureCall'.pc = "done" /\ pureCall'.out = pureCall.text
        /\ (pureCall.pc = "trim_loop" /\ pureCall'.pc = "trim_loop") =>
               LET s  == pureCall.s
                   s2 == pureCall'.s
                   d  == Decimals(s)
               IN  /\ TooWide(s) /\ HasDecimals(s)
                   /\ Len(s2) < Len(s)
                   /\ s2 = BeforeComma(s)
                           \o (IF Len(d) > 1
                               THEN <<",">> \o SubSeq(d, 1, Len(d) - 1)
                               ELSE << >>)
                           \o Unit(s)
        /\ (pureCall.pc = "trim_loop" /\ pureCall'.pc = "done") =>
               /\ ~TooWide(pureCall.s) => pureCall'.out = pureCall.s
               /\ TooWide(pureCall.s) =>
                      /\ ~HasDecimals(pureCall.s)
                      /\ pureCall'.out = ellipsize_to_fit(pureCall.s,
                                            pureCall.font, pureCall.max_width)
        /\ pureCall.pc = "trim_loop" => pureCall'.pc \in {"trim_loop", "done"}

C15_TrimStepwise == [][C15_Step]_vars

\* A percent with two decimals lost both of them and the comma, kept its
\* integer part and its "%", and was returned without an ellipsis
C15_Witness ==
    /\ Returned("trim_numeric_text_to_fit")
    /\ pureCall.text = <<"8", "8", ",", "8", "8", "%">>
    /\ pureCall.out = <<"8", "8", "%">>

-----------------------------------------------------------------------------
(* Properties of render_compare *)

\* C16: whichever of the font files can be loaded, and however wide the
\* labels and the value texts, render_compare does not raise.
C16_RenderNeverRaises == render.pc # "raised"

-----------------------------------------------------------------------------
(* Properties of the /generate request *)

\* The symbol a parameter asks for: upper case, no blanks around it
Asked(raw) == Strip(Upper(raw))

InTable(sym) == \E i \in 1..Len(request.csv) : request.csv[i] = sym

Answered == request.pc = "done"

NothingDrawn == request.calls = << >> /\ request.files = 0

\* C17: a request with a symbol missing is answered with 400, a request
\* whose symbols are given but of which one has no row in the table
\* read is answered with 404, and in both cases render_compare was not
\* called and no file was written; whenever render_compare is called,
\* it is with two rows of the table that carry the two symbols asked
\* for.
C17_NotFoundNeverRenders ==
    LET a == Asked(request.arg_a)
        b == Asked(request.arg_b)
    IN  request.pc # "idle" =>
          /\ (Answered /\ (a = << >> \/ b = << >>)) =>
                 request.status = 400 /\ NothingDrawn
          /\ (Answered /\ a # << >> /\ b # << >> /\ request.readable
                /\ (~InTable(a) \/ ~InTable(b))) =>
                 request.status = 404 /\ NothingDrawn
          /\ \A k \in 1..Len(request.calls) :
                 LET c == request.calls[k]
                 IN  /\ c[1] \in 1..Len(request.csv)
                     /\ c[2] \in 1..Len(request.csv)
                     /\ request.csv[c[1]] = a
                     /\ request.csv[c[2]] = b
          /\ request.files > 0 => Len(request.calls) > 0

\* A request for a symbol of the table and one that is not in it was
\* answered with 404
C17_Witness ==
    /\ Answered
    /\ request.arg_a = <<"a", "b">>
    /\ request.arg_b = <<"Z", "Z">>
    /\ request.csv = <<<<"A", "B">>, <<"C", "D">>>>
    /\ request.status = 404
    /\ NothingDrawn

-----------------------------------------------------------------------------
(* Properties of the load_df cache *)

NoLoadInProgress ==
    \A t \in Threads : dfCache.th[t].pc \in {"call", "done", "raised"}

\* C18: whenever no load_df is under way and the cached marker is the
\* file's modification time, the cached table is the file's content, not
\* an older one; and a call that returned has returned a table at least
\* as new as the modification time it observed.
C18_CacheSwappedAsUnit ==
    dfCache.pc = "serving" =>
        /\ (NoLoadInProgress /\ dfCache._df_mtime = dfCache.file.mtime) =>
               dfCache._df >= dfCache.file.content
        /\ \A t \in Threads :
               dfCache.th[t].pc = "done" =>
                   dfCache.th[t].ret >= dfCache.th[t].cur_mtime

-----------------------------------------------------------------------------
(* Properties of get_info_with_retry *)

Retrying == retry.pc # "idle"

\* The first attempt that succeeds, 0 when none does
FirstSuccess ==
    IF \E k \in 1..retry.max_tries : retry.outcome[k]
    THEN CHOOSE k \in 1..retry.max_tries :
           retry.outcome[k] /\ \A j \in 1..(k - 1) : ~retry.outcome[j]
    ELSE 0

\* C19: get_info_with_retry never makes more than max_tries attempts;
\* it returns the result of the first attempt that succeeds, having
\* made no attempt after it; the wait after the first failure is
\* base_sleep and each later wait is twice the one before, one wait per
\* failed attempt; and when all max_tries attempts have failed it raises
\* the error of the last one.
C19_RetryBackoff ==
    Retrying =>
      /\ Len(retry.fetched) <= retry.max_tries
      /\ \A k \in 1..Len(retry.slept) :
             retry.slept[k] = IF k = 1 THEN retry.base_sleep
                              ELSE 2 * retry.slept[k - 1]
      /\ retry.pc = "returned" =>
             /\ FirstSuccess # 0
             /\ retry.result = FirstSuccess
             /\ retry.fetched = [k \in 1..FirstSuccess |-> k]
             /\ Len(retry.slept) = FirstSuccess - 1
      /\ retry.pc = "raised" =>
             /\ FirstSuccess = 0
             /\ retry.fetched = [k \in 1..retry.max_tries |-> k]
             /\ Len(retry.slept) = retry.max_tries
             /\ retry.raised = retry.max_tries

\* Two attempts failed and the third returned, after waits of 0.8 s and
\* 1.6 s
C19_Witness ==
    /\ retry.pc = "returned"
    /\ retry.max_tries = 3
    /\ retry.result = 3
    /\ retry.slept = <<8, 16>>

-----------------------------------------------------------------------------
(* Properties of the update run *)

Updating == update.pc # "idle"

Times(t, list) == Cardinality({k \in 1..Len(list) : list[k] = t})

\* ceil(n / BATCH_SIZE)
BatchesOf(n, step) == (n + step - 1) \div step

\* Nothing is fetched in two batches or listed twice
UpdateSafe ==
    Updating =>
        \A t \in 1..update.n :
            /\ update.submitted[t] <= 1
            /\ Times(t, update.failed) + Times(t, update.applied) <= 1
            /\ Times(t, update.failed) = 1 =>
                   /\ update.fetched[t] = "error"
                   /\ update.tries[t] = QUICK_MAX_TRIES
            /\ Times(t, update.applied) = 1 => update.fetched[t] = "info"

\* At the end every batch was processed and every ticker was fetched
\* once and is on exactly one of the two lists
UpdateComplete ==
    update.pc = "end" =>
        /\ update.batches = BatchesOf(update.n, update.BATCH_SIZE)
        /\ \A t \in 1..update.n :
              /\ update.submitted[t] = 1
              /\ update.tries[t] >= 1
              /\ Times(t, update.failed) + Times(t, update.applied) = 1

\* C20: whatever fetch attempts fail, the run reaches its end with
\* every batch processed; every ticker is fetched in exactly one batch
\* and ends exactly once on the failed list, when its retries were
\* exhausted, or among the tickers applied to the table, when a fetch
\* returned.
C20_RunCompletes ==
    /\ [](UpdateSafe /\ UpdateComplete)
    /\ <>(update.pc = "end")

\* A run of three tickers in batches of two ended with the first ticker
\* failed and the other two applied
C20_Witness ==
    /\ update.pc = "end"
    /\ update.n = 3 /\ update.BATCH_SIZE = 2
    /\ update.failed = <<1>>
    /\ Times(2, update.applied) = 1 /\ Times(3, update.applied) = 1

-----------------------------------------------------------------------------
(* Properties of the order of the batches *)

\* The tickers of the batches before the one in the pool
Earlier == 1..update.i

\* The parts of the state that the claim names: the table, the failed
\* list, the worker count, the jitter and the cooldown
SharedParts(u) ==
    <<u.applied, u.failed, u.threads_current, u.jitter, u.sleep_group>>

\* Workers run only while the pool of their own batch is open
WorkersInPool ==
    Updating =>
        /\ update.running \subseteq update.group
        /\ update.running # {} => update.pc = "pool"

\* A fetch starts only when every ticker of the batches before has been
\* fetched and written to the table or to the failed list and every one
\* of these batches has had its cooldown; the shared parts change only
\* in a step of the main thread after the pool is closed, with no worker
\* running
BatchStep ==
    Updating =>
        /\ update'.running \ update.running # {} =>
              /\ update.slept = update.i \div update.BATCH_SIZE
              /\ update.slept * update.BATCH_SIZE >= update.i
              /\ \A t \in Earlier :
                    /\ update.fetched[t] # "no"
                    /\ update.tries[t] >= 1
                    /\ Times(t, update.applied) + Times(t, update.failed) = 1
              /\ \A t \in update'.running \ update.running :
                    t \notin Earlier /\ update.fetched[t] = "no"
        /\ SharedParts(update') # SharedParts(update) =>
              /\ update.pc = "apply"
              /\ update.running = {}
              /\ \A t \in update.group : update.fetched[t] # "no"

\* C28: the batches run one after another: no fetch of a batch starts
\* before every fetch of the batch before has ended, its results are in
\* the table or on the failed list and its cooldown is over; the table,
\* the failed list and the adapted settings change only in steps of the
\* main thread while no worker is running.
C28_BatchesInTurn == []WorkersInPool /\ [][BatchStep]_vars

\* A worker fetches the third ticker, in the second batch, after the
\* first batch has ended with a failure that changed the settings
C28_Witness ==
    /\ Updating
    /\ update.pc = "pool" /\ update.running = {3}
    /\ update.slept = 1
    /\ update.failed = <<1>>
    /\ update.threads_current < THREADS_BASE
    /\ update.sleep_group > 6 * SleepUnit

-----------------------------------------------------------------------------
(* Properties of the adapted settings *)

\* A batch has just ended
BatchEnded == adapt.pc = "batch" /\ adapt'.pc = "batch" /\ adapt' # adapt

\* The failure rate of the batch that ended, as a comparison of
\* fractions: failed / len against 1 / 4
RateAtLeastQuarter == 4 * adapt'.group_fail >= adapt'.len

\* C21: after a batch with a failure rate of 25% or more the cooldown
\* is the smaller of 1.5 times its value and SLEEP_GROUP_MAX, and the
\* worker count is one less unless it was at THREADS_MIN; after a batch
\* without failure and with the worker count below THREADS_BASE the
\* worker count is one more and the cooldown as before; in every other
\* case both are as before.
C21_Step ==
    BatchEnded =>
        LET tc  == adapt.threads_current
            sl  == adapt.sleep_group
            tc2 == adapt'.threads_current
            sl2 == adapt'.sleep_group
        IN  IF RateAtLeastQuarter
            THEN /\ 2 * sl2 = IF 3 * sl <= 2 * SLEEP_GROUP_MAX THEN 3 * sl
                              ELSE 2 * SLEEP_GROUP_MAX
                 /\ tc2 = IF tc = adapt.THREADS_MIN THEN tc ELSE tc - 1
            ELSE IF adapt'.group_fail = 0 /\ tc < adapt.THREADS_BASE
            THEN tc2 = tc + 1 /\ sl2 = sl
            ELSE tc2 = tc /\ sl2 = sl

C21_AdaptAfterBatch == [][C21_Step]_vars

\* With the default settings a batch with one failure in four took a
\* worker away and raised the cooldown from 6 s to 9 s
C21_Witness ==
    /\ adapt.pc = "batch" /\ adapt.batches = 1
    /\ adapt.THREADS_BASE = 4 /\ adapt.THREADS_MIN = 2
    /\ adapt.group_fail = 1 /\ adapt.len = 4
    /\ adapt.threads_current = 3
    /\ adapt.sleep_group = 9 * SleepUnit

\* C29: with THREADS_MIN <= THREADS_MAX the worker count stays between
\* the two, and the cooldown never exceeds SLEEP_GROUP_MAX and never
\* gets shorter from one batch to the next.
C29_SettingsInRange ==
    /\ [](adapt.pc # "idle" =>
            /\ adapt.THREADS_MIN <= adapt.threads_current
            /\ adapt.threads_current <= adapt.THREADS_MAX
            /\ adapt.sleep_group <= SLEEP_GROUP_MAX)
    /\ [][adapt.pc # "idle" => adapt'.sleep_group >= adapt.sleep_group]_vars

-----------------------------------------------------------------------------
(* Properties of cleanup_generated *)

Cleaning == cleanup.pc = "serving"

\* The files a step takes out of the directory
Deleted == cleanup.files \ cleanup'.files

\* C22: a file leaves the directory only when it is older than
\* max_age_hours; when cleanup_generated returns, no file that was
\* older than that at its call is left; a run that begins after a run
\* with the same time has ended removes nothing; and the image of a
\* request stays in the directory from its writing until it is fetched.
C22_Step ==
    Cleaning =>
        /\ \A e \in Deleted : cleanup.clock - e[2] > MaxAgeTicks
        /\ \A c \in Clients :
              /\ (cleanup.cl[c].pc = "loop" /\ cleanup'.cl[c].pc = "render") =>
                     \A e \in cleanup'.files :
                         cleanup.cl[c].now - e[2] <= MaxAgeTicks
              /\ (cleanup'.cl[c].pc = "loop"
                    /\ cleanup'.cl[c].after = cleanup'.cl[c].now) =>
                     cleanup'.cl[c].removed = {}
              /\ cleanup'.cl[c].pc = "fetch" =>
                     \E e \in cleanup'.files : e[1] = ImageOf(c)
              /\ cleanup'.cl[c].served # "not found"

-----------------------------------------------------------------------------
(* Properties of the lower block of render_compare *)

LowerBlockDone == Returned("lower_block")

\* Top of the footer zone: "img.height - int(img.height * SAFE_BOTTOM_FRAC)"
FooterZone == pureCall.H - Frac(pureCall.H, 180)

-----------------------------------------------------------------------------
(* Properties of the stat pills *)

PillsDone == Returned("draw_stat_pills")

\* The row has a price above zero and an analyst target
PriceAndTarget ==
    /\ _to_float(pureCall.price).ok /\ _to_float(pureCall.price).v > 0
    /\ _to_float(pureCall.target).ok

\* The three pills are there when the row has price and target, in the
\* order price, target, potential, with the potential of the formula
ThreePills ==
    (PillsDone /\ PriceAndTarget) =>
        /\ pureCall.out.drawn
        /\ [i \in 1..3 |-> pureCall.out.items[i].lab] = <<"Kurs", "Ziel", "Pot.">>
        /\ Len(pureCall.out.items) = 3
        /\ pureCall.out.pot =
             pot_of(_to_float(pureCall.price).v, _to_float(pureCall.target).v)
        /\ pureCall.out.items[3].val[1] = (IF pureCall.out.pot >= 0 THEN "▲" ELSE "▼")

\* C24: for every row with a price above zero and an analyst target
\* draw_stat_pills shows the three pills price, target and potential, the
\* potential is (target/price - 1) x 100, and the value of the potential
\* pill is green exactly when the potential is not negative, red
\* otherwise.
C24_PotentialColour ==
    /\ ThreePills
    /\ (PillsDone /\ PriceAndTarget) =>
          pureCall.out.items[3].fill =
             (IF pureCall.out.pot >= 0 THEN COLOR_BETTER ELSE COLOR_WORSE)

-----------------------------------------------------------------------------
(* Order of the shrinking in the fit loop of generate_image *)

WidthFails  == ~fits_width(f_lbl_cur, f_val_cur, fitIn)
HeightFails == ~fits_height(f_lbl_cur, fitIn, fontOk)

\* The font one pixel smaller, the font file being what it is
OneSmaller(font) == app_font(font.size - 1, fontOk)

\* C25: in every pass of the fit loop of generate_image: when the width
\* fails and the value font is above the floor, the value font alone
\* shrinks by one; when the width fails with the value font at the floor
\* and the label font above it, the label font alone shrinks by one; when
\* neither applies and the height fails, label font and value font shrink
\* by one together, each if it is above the floor; in no other pass does
\* a font change.
C25_Step ==
    fpc = "fit_loop" =>
        IF WidthFails /\ f_val_cur.size > MIN_FONT
          THEN f_val_cur' = OneSmaller(f_val_cur) /\ f_lbl_cur' = f_lbl_cur
        ELSE IF WidthFails /\ f_lbl_cur.size > MIN_FONT
          THEN f_lbl_cur' = OneSmaller(f_lbl_cur) /\ f_val_cur' = f_val_cur
        ELSE IF HeightFails
          THEN /\ f_lbl_cur' = IF f_lbl_cur.size > MIN_FONT
                                 THEN OneSmaller(f_lbl_cur) ELSE f_lbl_cur
               /\ f_val_cur' = IF f_val_cur.size > MIN_FONT
                                 THEN OneSmaller(f_val_cur) ELSE f_val_cur
        ELSE f_lbl_cur' = f_lbl_cur /\ f_val_cur' = f_val_cur

C25_ShrinkOrder == [][C25_Step]_vars

\* The value font went down to the floor one pass at a time, then the
\* label font began to shrink alone, and the width still fails
C25_Witness ==
    /\ fpc = "fit_loop"
    /\ f_val_cur.size = MIN_FONT
    /\ f_lbl_cur.size < FitStartSize /\ f_lbl_cur.size > MIN_FONT
    /\ passes = (FitStartSize - MIN_FONT) + (FitStartSize - f_lbl_cur.size)
    /\ WidthFails /\ HeightFails

-----------------------------------------------------------------------------
(* Properties of the chip width *)

ChipDone == Returned("chip_clamp")

\* What the chip leaves for the label, and the least the label is to get
LabelSpace == pureCall.content_w - pureCall.out - 16
MinLabel   == (pureCall.content_w * LABEL_MIN_FRAC) \div 100
MaxChip    == (pureCall.content_w * CHIP_MAX_FRAC) \div 100

\* The chip before the test of the label space
Clamped == Min(Max(pureCall.base_w, pureCall.shared), MaxChip)

-----------------------------------------------------------------------------
(* Properties of the hyphenation loop of wrap_text *)

Wrapping == pureCall.pc \in {"while", "done"} /\ pureCall.fn = "wrap_text"

\* The fragments without their last character, one after another
RECURSIVE Unhyphenated(_)
Unhyphenated(lines) ==
    IF lines = << >> THEN << >>
    ELSE SubSeq(Head(lines), 1, Len(Head(lines)) - 1)
           \o Unhyphenated(Tail(lines))

\* The fragments and the remainder give the word; a round was run for
\* every fragment, so the rounds are fewer than the characters
WordKept ==
    Wrapping =>
        /\ Unhyphenated(pureCall.lines) \o pureCall.w = pureCall.word
        /\ Len(pureCall.lines) + Len(pureCall.w) <= Len(pureCall.word)
        /\ Len(pureCall.w) >= 1

\* A round takes at least one character off the remainder and appends
\* the longest prefix that fits with its hyphen, or one character when
\* none fits; leaving the loop appends nothing
HyphenStep ==
    (Wrapping /\ pureCall.pc = "while") =>
        \/ /\ pureCall'.pc = "done"
           /\ pureCall'.lines = pureCall.lines
           /\ pureCall'.cur = pureCall.w
        \/ /\ pureCall'.pc = "while"
           /\ Len(pureCall'.w) < Len(pureCall.w)
           /\ Len(pureCall'.lines) = Len(pureCall.lines) + 1
           /\ LET frag == pureCall'.lines[Len(pureCall'.lines)]
                  k    == Len(frag) - 1
                  fits(j) == FitsWidth(Trial(pureCall.w, j), pureCall.font,
                                       pureCall.max_w)
              IN  /\ k >= 1
                  /\ frag = Trial(pureCall.w, k)
                  /\ fits(k) \/ (k = 1 /\ \A j \in 1..Len(pureCall.w) : ~fits(j))
                  /\ \A j \in (k + 1)..Len(pureCall.w) : ~fits(j)

\* C27: for every word the hyphenation loop of wrap_text ends; every
\* round takes at least one character, every fragment it appends is the
\* longest prefix of the remainder that fits max_w with its '-' (one
\* character when not even one fits), and the fragments without the
\* added hyphens, followed by the remainder, are the word.
C27_Hyphenation ==
    /\ []WordKept
    /\ [][HyphenStep]_vars
    /\ <>(Wrapping => pureCall.pc = "done")

\* A word wider than max_w was cut into two fragments with a hyphen and
\* a remainder, one of the fragments longer than one character
C27_Witness ==
    /\ Wrapping /\ pureCall.pc = "done"
    /\ ~FitsWidth(pureCall.word, pureCall.font, pureCall.max_w)
    /\ Len(pureCall.lines) = 2
    /\ Len(pureCall.lines[1]) > 2
    /\ "-" \in {pureCall.word[i] : i \in 1..Len(pureCall.word)}

-----------------------------------------------------------------------------
(* Properties of the files main writes *)

Saving == save.pc # "idle"

\* Percent of the tickers counted as updated is under the threshold:
\* 100 * updated_rows_count / ticker_total < MIN_UPDATED_QUOTE
UnderThreshold ==
    save.updated_rows_count * 100 < save.MIN_UPDATED_QUOTE * save.ticker_total

\* Until the end of the run stock_data.csv is what it was; at the end of
\* a run that is not QUICK and is under the threshold it still is
OutputKept ==
    Saving =>
        /\ save.pc # "end" => save.output = "old"
        /\ (save.pc = "end" /\ ~save.QUICK /\ UnderThreshold) =>
              save.output = "old" /\ save.written = "none"

\* A step writes to stock_data.csv only at the end of a run that has
\* reached the threshold or is QUICK; a partial save writes the partial
\* file and nothing else
OutputStep ==
    Saving =>
        /\ (save'.output # save.output \/ save'.written = "output") =>
              /\ save.pc = "finish"
              /\ save.QUICK \/ ~UnderThreshold
        /\ save'.partial # save.partial =>
              /\ save.pc = "results"
              /\ save'.written = "partial"
              /\ save'.output = save.output

\* C30: at the end of a run that is not QUICK stock_data.csv is left as
\* it was whenever updated_rows_count / ticker_total is below
\* MIN_UPDATED_QUOTE; it is written only when the share reaches the
\* threshold or the run is QUICK; the partial saves write the
\* .partial.csv file and never stock_data.csv.
C30_OutputGuarded == []OutputKept /\ [][OutputStep]_vars

\* A run without QUICK wrote its partial file and ended below the
\* threshold of 75 % with two of four tickers changed; the CSV is the
\* old one
C30_Witness ==
    /\ save.pc = "end" /\ ~save.QUICK
    /\ save.MIN_UPDATED_QUOTE = 75 /\ save.ticker_total = 4
    /\ save.updated_rows_count = 2
    /\ save.partial = "written"
    /\ save.output = "old"

-----------------------------------------------------------------------------
(* The whole model: each run follows one of the parts *)

Init ==
    \/ InitFit \/ InitCard \/ InitScore \/ InitSelect \/ InitPure
    \/ InitRender \/ InitRequest \/ InitLoadDf
    \/ InitRetry \/ InitUpdate \/ InitAdapt
    \/ InitCleanup \/ InitWrap \/ InitSave

Next ==
    \/ NextFit \/ NextCard \/ NextScore \/ NextSelect \/ NextPure
    \/ NextRender \/ NextRequest \/ NextLoadDf
    \/ NextRetry \/ NextUpdate \/ NextAdapt
    \/ NextCleanup \/ NextWrap \/ NextSave

Spec == Init /\ [][Next]_vars

=============================================================================
